---- MODULE Spec2Model ----
(***************************************************************************)
(* medialog: the backward-compatible /api/media routes of the server       *)
(* (year query, create, update, delete, bulk insert), the tag helpers      *)
(* parseTagsInput, getMediaTags and setMediaTags, and the SQLite tables    *)
(* media, tags and media_tags. Spec, SpecBulk, SpecQuery, SpecIds and     *)
(* SpecFields serve the requests one after another; SpecRace, SpecShared   *)
(* and SpecPair interleave two handlers at their storage calls on the one  *)
(* database handle; SpecTags runs the tag normalizer alone and SpecCalls   *)
(* calls setMediaTags directly. SpecLife is the process from startServer   *)
(* to its exit: initDb on database files of earlier layouts, requests,     *)
(* SIGTERM.                                                                *)
(*                                                                         *)
(* Strings whose characters matter (tag input, dates) are sequences of     *)
(* one-character strings; titles and media types are opaque strings.       *)
(* A JSON value is a record [k, s, l]: k is its JavaScript kind, s its     *)
(* text when it is a string, l its elements when it is an array.           *)
(***************************************************************************)
EXTENDS Integers, Sequences, FiniteSets, TLC

\* ------------------------------------------------------------------ bounds
MaxTagLen == 4      \* longest tag string of the normalizer's input space
MaxListLen == 2     \* longest tag list of the normalizer's input space
MaxElemLen == 1     \* longest element of such a list
MaxRequests == 2    \* requests served in one behaviour
MaxBulkRequests == 1 \* bulk requests served in one behaviour of SpecBulk
MaxBatch == 2       \* longest batch that is enumerated item by item
MaxFaults == 1      \* storage failures injected in one behaviour
MaxQueryRequests == 3 \* requests served in one behaviour of SpecQuery
MaxIdRequests == 2  \* requests served in one behaviour of SpecIds
MaxIdDigits == 2    \* longest run of digits in the id text of a delete path
MaxRaceRequests == 2 \* requests served in one behaviour of SpecRace
MaxFieldRequests == 3 \* requests served in one behaviour of SpecFields
MaxSharedRequests == 3 \* requests served in one behaviour of SpecShared
MaxPairRequests == 3 \* requests served in one behaviour of SpecPair
MaxCalls == 3       \* creates and setMediaTags calls in one behaviour of SpecCalls
MaxLifeRequests == 2 \* requests served in one behaviour of SpecLife
MaxSignals == 2     \* SIGTERMs the process receives in one behaviour
MaxInits == 2       \* calls of initDb in one behaviour

\* --------------------------------------------------------- program constants
BULK_LIMIT == 200
validTypes == {"book", "series", "comic", "movie", "anime", "cartoon"}

\* ------------------------------------------------------------------ strings
Alphabet == {"a", "A", "b", " ", ","}
Digit == {"0", "1", "2", "3", "4", "5", "6", "7", "8", "9"}

\* faulty variant of toLowerCase: the text keeps its case
keepCase(s) == s

\* String.prototype.toLowerCase, character by character
LowerChar(ch) == IF ch = "A" THEN "a" ELSE ch
toLowerCase(s) == [k \in 1..Len(s) |-> LowerChar(s[k])]

IsSpace(ch) == ch = " "

RECURSIVE trimStart(_)
trimStart(s) ==
  IF s = <<>> THEN <<>>
  ELSE IF IsSpace(Head(s)) THEN trimStart(Tail(s)) ELSE s

RECURSIVE trimEnd(_)
trimEnd(s) ==
  IF s = <<>> THEN <<>>
  ELSE IF IsSpace(s[Len(s)]) THEN trimEnd(SubSeq(s, 1, Len(s) - 1)) ELSE s

\* faulty variant of trim: one leading space goes, and nothing else
trimOneSpace(s) == IF s # <<>> /\ IsSpace(Head(s)) THEN Tail(s) ELSE s

\* faulty variant of trim: only the leading whitespace goes
trimLeadingOnly(s) == trimStart(s)

\* String.prototype.trim
trim(s) == trimEnd(trimStart(s))

\* String.prototype.split(','): "" gives [""], "a," gives ["a", ""]
RECURSIVE splitAcc(_, _, _)
splitAcc(s, cur, acc) ==
  IF s = <<>> THEN Append(acc, cur)
  ELSE IF Head(s) = "," THEN splitAcc(Tail(s), <<>>, Append(acc, cur))
  ELSE splitAcc(Tail(s), Append(cur, Head(s)), acc)

split(s) == splitAcc(s, <<>>, <<>>)

\* Array.prototype.filter((tag) => tag.length > 0)
RECURSIVE filterNonEmpty(_)
filterNonEmpty(l) ==
  IF l = <<>> THEN <<>>
  ELSE IF Len(Head(l)) > 0 THEN <<Head(l)>> \o filterNonEmpty(Tail(l))
  ELSE filterNonEmpty(Tail(l))

\* -------------------------------------------------------------- JSON values
Undef == [k |-> "undef", s |-> <<>>, l |-> <<>>]
Null == [k |-> "null", s |-> <<>>, l |-> <<>>]
Num == [k |-> "num", s |-> <<>>, l |-> <<>>]
Str(s) == [k |-> "str", s |-> s, l |-> <<>>]
\* title and media_type: their text is kept whole (an opaque string)
UndefT == [k |-> "undef", s |-> "", l |-> <<>>]
Txt(t) == [k |-> "str", s |-> t, l |-> <<>>]
List(l) == [k |-> "list", s |-> <<>>, l |-> l]
True == [k |-> "true", s |-> <<>>, l |-> <<>>]
False == [k |-> "false", s |-> <<>>, l |-> <<>>]

\* ----------------------------------------------------------- parseTagsInput
\* .map((tag) => tag.trim().toLowerCase()): a non-string element has no trim
\* method, and the call throws a TypeError
mapTrimLower(l) == [k \in 1..Len(l) |-> toLowerCase(trim(l[k]))]

parseTagsInput(tagsInput) ==
  IF tagsInput.k = "list"
  THEN IF \E k \in 1..Len(tagsInput.l) : tagsInput.l[k].k # "str"
       THEN [err |-> "TypeError", val |-> <<>>]
       ELSE [err |-> "",
             val |-> filterNonEmpty(
                       mapTrimLower([k \in 1..Len(tagsInput.l) |-> tagsInput.l[k].s]))]
  ELSE IF tagsInput.k = "str"
  THEN [err |-> "", val |-> filterNonEmpty(mapTrimLower(split(tagsInput.s)))]
  ELSE [err |-> "", val |-> <<>>]

\* ---------------------------------------------------------------- storage
\* The SQLite database behind the shared handle db: the three tables in rowid
\* order and the AUTOINCREMENT counters of media and tags (sqlite_sequence).
\* the columns of the media table that CREATE TABLE names (part_001:58-70),
\* without id and the two timestamps
CreatedColumns ==
  {"title", "author", "media_type", "start_date", "end_date",
   "volume_episode", "tags", "notes"}
\* the columns the INSERT and UPDATE statements of the handlers name
WrittenColumns ==
  {"title", "author", "media_type", "start_date", "end_date",
   "volume_episode", "notes", "discontinued"}
\* the columns the SELECT statement of the year query names
QueryColumns == CreatedColumns \cup {"discontinued"}

\* The database after initDb has run on a new file. columns: the columns of
\* the media table; notnull: end_date is declared NOT NULL; tagTables: the
\* tables tags and media_tags exist.
EmptyDb ==
  [media |-> <<>>, tags |-> <<>>, media_tags |-> <<>>,
   seq_media |-> 0, seq_tags |-> 0,
   columns |-> CreatedColumns \cup {"discontinued"}, notnull |-> FALSE,
   tagTables |-> TRUE]

\* One handler's run of storage calls: the database, the statement the
\* storage engine fails at ("": none), the error thrown so far, and the
\* lastID / changes of the last statement.
Ctx(d, fault) == [db |-> d, fault |-> fault, err |-> "", lastID |-> 0, changes |-> 0]

\* await db.run / db.get: the call rejects when the storage engine fails
Tick(c, stmt) ==
  IF c.fault = stmt THEN [c EXCEPT !.err = "SQLITE_ERROR"] ELSE c
\* the statement names a column the media table does not have
NoColumn(c, columns) ==
  IF c.err = "" /\ ~(columns \subseteq c.db.columns)
  THEN [c EXCEPT !.err = "SQLITE_ERROR: no column"] ELSE c

Rows(table) == {table[k] : k \in 1..Len(table)}

\* end_date = null is the destructuring default of an absent field
EndDateOf(item) == IF item.end_date.k = "undef" THEN Null ELSE item.end_date

\* notes = '' is the destructuring default of an absent field
NotesOf(item) == IF item.notes.k = "undef" THEN Str(<<>>) ELSE item.notes
\* discontinued ? 1 : 0  (discontinued = false when the field is absent)
DiscontinuedOf(item) ==
  IF \/ item.discontinued.k \in {"true", "num", "list"}
     \/ (item.discontinued.k = "str" /\ item.discontinued.s # <<>>)
  THEN 1 ELSE 0

\* INSERT INTO media (...) VALUES (...)
insertMedia(c, item) ==
  IF c.err # "" THEN c
  ELSE LET t == NoColumn(Tick(c, "INSERT media"), WrittenColumns)
           id == t.db.seq_media + 1
           row == [id |-> id, title |-> item.title.s,
                   media_type |-> item.media_type.s,
                   start_date |-> item.start_date.s,
                   end_date |-> EndDateOf(item),
                   notes |-> NotesOf(item),
                   discontinued |-> DiscontinuedOf(item),
                   tags |-> Null]
       IN IF t.err # "" THEN t
          ELSE [t EXCEPT !.db.media = Append(@, row), !.db.seq_media = id,
                         !.lastID = id, !.changes = 1]

\* faulty variant of updateMedia: an absent end_date keeps the stored one
updateMediaKeepsEnd(c, mediaId, item) ==
  IF c.err # "" THEN c
  ELSE LET t == NoColumn(Tick(c, "UPDATE media"), WrittenColumns)
           hit == {k \in 1..Len(t.db.media) : t.db.media[k].id = mediaId}
       IN IF t.err # "" THEN t
          ELSE [t EXCEPT
                 !.db.media = [k \in 1..Len(@) |->
                    IF k \in hit
                    THEN [id |-> mediaId, title |-> item.title.s,
                          media_type |-> item.media_type.s,
                          start_date |-> item.start_date.s,
                          end_date |-> IF item.end_date.k = "undef"
                                       THEN @[k].end_date ELSE item.end_date,
                          notes |-> NotesOf(item),
                          discontinued |-> DiscontinuedOf(item),
                          tags |-> @[k].tags]
                    ELSE @[k]],
                 !.changes = Cardinality(hit)]

\* faulty variant of updateMedia: the statement always reports one change
updateMediaReportsChange(c, mediaId, item) ==
  IF c.err # "" THEN c
  ELSE LET t == NoColumn(Tick(c, "UPDATE media"), WrittenColumns)
           hit == {k \in 1..Len(t.db.media) : t.db.media[k].id = mediaId}
       IN IF t.err # "" THEN t
          ELSE [t EXCEPT
                 !.db.media = [k \in 1..Len(@) |->
                    IF k \in hit
                    THEN [id |-> mediaId, title |-> item.title.s,
                          media_type |-> item.media_type.s,
                          start_date |-> item.start_date.s,
                          end_date |-> EndDateOf(item),
                          notes |-> NotesOf(item),
                          discontinued |-> DiscontinuedOf(item),
                          tags |-> @[k].tags]
                    ELSE @[k]],
                 !.changes = 1]

\* UPDATE media SET ... WHERE id = ?
updateMedia(c, mediaId, item) ==
  IF c.err # "" THEN c
  ELSE LET t == NoColumn(Tick(c, "UPDATE media"), WrittenColumns)
           hit == {k \in 1..Len(t.db.media) : t.db.media[k].id = mediaId}
       IN IF t.err # "" THEN t
          ELSE [t EXCEPT
                 !.db.media = [k \in 1..Len(@) |->
                    IF k \in hit
                    THEN [id |-> mediaId, title |-> item.title.s,
                          media_type |-> item.media_type.s,
                          start_date |-> item.start_date.s,
                          end_date |-> EndDateOf(item),
                          notes |-> NotesOf(item),
                          discontinued |-> DiscontinuedOf(item),
                          tags |-> @[k].tags]
                    ELSE @[k]],
                 !.changes = Cardinality(hit)]

\* faulty variant of deleteMedia: the statement always reports one change
deleteMediaReportsChange(c, mediaId) ==
  IF c.err # "" THEN c
  ELSE LET t == Tick(c, "DELETE media")
           Keep(r) == r.id # mediaId
       IN IF t.err # "" THEN t
          ELSE [t EXCEPT !.db.media = SelectSeq(@, Keep), !.changes = 1]

\* DELETE FROM media WHERE id = ?  (the handle never sets PRAGMA foreign_keys,
\* so the ON DELETE CASCADE of media_tags is not enforced)
deleteMedia(c, mediaId) ==
  IF c.err # "" THEN c
  ELSE LET t == Tick(c, "DELETE media")
           Keep(r) == r.id # mediaId
       IN IF t.err # "" THEN t
          ELSE [t EXCEPT !.db.media = SelectSeq(@, Keep),
                         !.changes = Len(t.db.media) - Len(SelectSeq(t.db.media, Keep))]

\* faulty variant of deleteMediaTags: the statement removes nothing
deleteMediaTagsKeepsRows(c, mediaId) ==
  IF c.err # "" THEN c ELSE Tick(c, "DELETE media_tags")

\* faulty variant of deleteMediaTags: tags left without a record go as well
deleteMediaTagsDropsOrphans(c, mediaId) ==
  IF c.err # "" THEN c
  ELSE LET t == Tick(c, "DELETE media_tags")
           Keep(r) == r.media_id # mediaId
           Used(g) == \E r \in Rows(SelectSeq(t.db.media_tags, Keep)) : r.tag_id = g.id
       IN IF t.err # "" THEN t
          ELSE [t EXCEPT !.db.media_tags = SelectSeq(@, Keep),
                         !.db.tags = SelectSeq(@, Used)]

\* faulty variant of deleteMediaTags: the statement has no WHERE clause
deleteMediaTagsOfAll(c, mediaId) ==
  IF c.err # "" THEN c
  ELSE LET t == Tick(c, "DELETE media_tags")
       IN IF t.err # "" THEN t
          ELSE [t EXCEPT !.db.media_tags = <<>>]

\* DELETE FROM media_tags WHERE media_id = ?
deleteMediaTags(c, mediaId) ==
  IF c.err # "" THEN c
  ELSE LET t == Tick(c, "DELETE media_tags")
           Keep(r) == r.media_id # mediaId
       IN IF t.err # "" THEN t
          ELSE [t EXCEPT !.db.media_tags = SelectSeq(@, Keep)]

\* SELECT id FROM tags WHERE name = ?  (0: no row)
TagIdByName(d, name) ==
  IF \E k \in 1..Len(d.tags) : d.tags[k].name = name
  THEN d.tags[CHOOSE k \in 1..Len(d.tags) :
                /\ d.tags[k].name = name
                /\ \A j \in 1..(k - 1) : d.tags[j].name # name].id
  ELSE 0

selectTag(c, name) ==
  IF c.err # "" THEN c
  ELSE LET t == Tick(c, "SELECT tags")
       IN IF t.err # "" THEN t ELSE [t EXCEPT !.lastID = TagIdByName(t.db, name)]

\* INSERT INTO tags (name) VALUES (?)  with name TEXT NOT NULL UNIQUE
insertTag(c, name) ==
  IF c.err # "" THEN c
  ELSE LET t == Tick(c, "INSERT tags")
           id == t.db.seq_tags + 1
       IN IF t.err # "" THEN t
          ELSE IF \E r \in Rows(t.db.tags) : r.name = name
          THEN [t EXCEPT !.err = "UNIQUE constraint failed"]
          ELSE [t EXCEPT !.db.tags = Append(@, [id |-> id, name |-> name]),
                         !.db.seq_tags = id, !.lastID = id, !.changes = 1]

\* faulty variant of insertMediaTag: the table has no PRIMARY KEY
insertMediaTagNoKey(c, mediaId, tagId) ==
  IF c.err # "" THEN c
  ELSE LET t == Tick(c, "INSERT media_tags")
       IN IF t.err # "" THEN t
          ELSE [t EXCEPT !.db.media_tags =
                           Append(@, [media_id |-> mediaId, tag_id |-> tagId]),
                         !.changes = 1]

\* INSERT INTO media_tags (media_id, tag_id) VALUES (?, ?)
\* with PRIMARY KEY (media_id, tag_id)
insertMediaTag(c, mediaId, tagId) ==
  IF c.err # "" THEN c
  ELSE LET t == Tick(c, "INSERT media_tags")
       IN IF t.err # "" THEN t
          ELSE IF \E r \in Rows(t.db.media_tags) :
                    r.media_id = mediaId /\ r.tag_id = tagId
          THEN [t EXCEPT !.err = "UNIQUE constraint failed"]
          ELSE [t EXCEPT !.db.media_tags =
                           Append(@, [media_id |-> mediaId, tag_id |-> tagId]),
                         !.changes = 1]

\* ------------------------------------------------------------- setMediaTags
\* faulty variant of attachTag: the catch rethrows the uniqueness conflict
attachTagRethrows(c, mediaId, tagName) ==
  LET trimmedTag == toLowerCase(trim(tagName))
      c1 == selectTag(c, trimmedTag)
      c2 == IF c1.err = "" /\ c1.lastID = 0 THEN insertTag(c1, trimmedTag) ELSE c1
      c3 == insertMediaTag(c2, mediaId, c2.lastID)
  IN IF Len(trimmedTag) = 0 THEN c
     ELSE IF c2.err # "" THEN c2
     ELSE c3

\* faulty variant of attachTag: the catch swallows every error
attachTagSwallowsAll(c, mediaId, tagName) ==
  LET trimmedTag == toLowerCase(trim(tagName))
      c1 == selectTag(c, trimmedTag)
      c2 == IF c1.err = "" /\ c1.lastID = 0 THEN insertTag(c1, trimmedTag) ELSE c1
      c3 == insertMediaTag(c2, mediaId, c2.lastID)
  IN IF Len(trimmedTag) = 0 THEN c
     ELSE IF c2.err # "" THEN c2
     ELSE [c3 EXCEPT !.err = ""]

\* one pass of the loop body: get or create the tag, then relate it
attachTag(c, mediaId, tagName) ==
  LET trimmedTag == toLowerCase(trim(tagName))
      c1 == selectTag(c, trimmedTag)
      c2 == IF c1.err = "" /\ c1.lastID = 0 THEN insertTag(c1, trimmedTag) ELSE c1
      c3 == insertMediaTag(c2, mediaId, c2.lastID)
  IN IF Len(trimmedTag) = 0 THEN c
     ELSE IF c2.err # "" THEN c2
     ELSE IF c3.err = "UNIQUE constraint failed" THEN [c3 EXCEPT !.err = ""]
     ELSE c3

RECURSIVE setTagsLoop(_, _, _)
setTagsLoop(c, mediaId, tagNames) ==
  IF tagNames = <<>> \/ c.err # "" THEN c
  ELSE setTagsLoop(attachTag(c, mediaId, Head(tagNames)), mediaId, Tail(tagNames))

setMediaTags(c, mediaId, tagNames) ==
  LET c1 == deleteMediaTags(c, mediaId)
  IN IF c1.err # "" THEN c1
     ELSE IF Len(tagNames) = 0 THEN c1
     ELSE setTagsLoop(c1, mediaId, tagNames)

\* getMediaTags(mediaId), as the set of names it returns
TagNamesOf(d, mediaId) ==
  {t.name : t \in {t \in Rows(d.tags) :
      \E mt \in Rows(d.media_tags) : mt.media_id = mediaId /\ mt.tag_id = t.id}}

\* ------------------------------------------------------------------ initDb
\* the value of a column the row's table does not have
NoValue == -1
MaxOf(S) == IF S = {} THEN 0 ELSE CHOOSE m \in S : \A x \in S : x <= m

\* CREATE TABLE IF NOT EXISTS media; a database without the table has no
\* columns
createMediaTable(d) ==
  IF d.columns = {} THEN [d EXCEPT !.columns = CreatedColumns] ELSE d

\* the four ALTER TABLE media ADD COLUMN of the columns that are missing;
\* the rows get the default of the new column
addMissingColumns(d) ==
  [d EXCEPT !.columns = @ \cup {"author", "volume_episode", "tags", "discontinued"},
            !.media = [k \in 1..Len(@) |->
                         IF "discontinued" \in d.columns THEN @[k]
                         ELSE [@[k] EXCEPT !.discontinued = 0]]]

\* the rebuild that makes end_date nullable, for the table_info read before
\* the ALTERs: media_new has the columns of CREATE TABLE, the rows are copied
\* column by column, media is dropped and media_new takes its name and the
\* id counter of the copied rows
makeEndDateNullable(tableInfo, d) ==
  IF "end_date" \in tableInfo.columns /\ tableInfo.notnull
  THEN [d EXCEPT !.columns = CreatedColumns,
                 !.notnull = FALSE,
                 !.media = [k \in 1..Len(@) |-> [@[k] EXCEPT !.discontinued = NoValue]],
                 !.seq_media = MaxOf({r.id : r \in Rows(d.media)})]
  ELSE d

\* migrateToManyToManyTags, the loop over the rows whose tags text is neither
\* NULL nor empty: split, trim, lower case, drop the empty names, then select,
\* insert and link each name
RECURSIVE migrateRows(_, _)
migrateRows(c, rows) ==
  IF rows = <<>> \/ c.err # "" THEN c
  ELSE LET media == Head(rows)
           tagNames == filterNonEmpty(mapTrimLower(split(media.tags.s)))
       IN migrateRows(
            IF media.tags.k = "str" /\ media.tags.s # <<>>
            THEN setTagsLoop(c, media.id, tagNames) ELSE c,
            Tail(rows))

\* runMigrations: migrateToManyToManyTags, skipped when both tables exist
runMigrations(d) ==
  IF d.tagTables THEN d
  ELSE migrateRows(Ctx([d EXCEPT !.tagTables = TRUE], ""), d.media).db

\* initDb on the database file d, once the handle is opened
initDb(d) ==
  LET created == createMediaTable(d)
  IN runMigrations(makeEndDateNullable(created, addMissingColumns(created)))

\* -------------------------------------------------------------- validation
\* JavaScript truthiness of a field (title, media_type: opaque text)
TruthyT(v) == (v.k = "str" /\ v.s # "") \/ v.k \in {"num", "list"}
\* JavaScript truthiness of a field whose characters are modelled (dates)
TruthyS(v) == (v.k = "str" /\ v.s # <<>>) \/ v.k \in {"num", "list"}

\* /^\d{4}-\d{2}-\d{2}$/.test(value)
dateRegexTest(v) ==
  /\ v.k = "str"
  /\ Len(v.s) = 10
  /\ \A k \in {1, 2, 3, 4, 6, 7, 9, 10} : v.s[k] \in Digit
  /\ v.s[5] = "-"
  /\ v.s[8] = "-"

\* the three checks every entry point makes, in order ("": the item passes)
validationError(item) ==
  IF ~TruthyT(item.title) \/ ~TruthyT(item.media_type) \/ ~TruthyS(item.start_date)
  THEN "missing"
  ELSE IF ~(item.media_type.k = "str" /\ item.media_type.s \in validTypes)
  THEN "type"
  ELSE IF \/ ~dateRegexTest(item.start_date)
          \/ (TruthyS(item.end_date) /\ ~dateRegexTest(item.end_date))
  THEN "date"
  ELSE ""

\* the error text of a single create or update
singleMessage(kind, item) ==
  IF kind = "missing" THEN [text |-> "Missing required fields", value |-> ""]
  ELSE IF kind = "type"
  THEN [text |-> "Invalid media type. Must be one of: book, comic, movie, series, anime, cartoon",
        value |-> ""]
  ELSE [text |-> "Invalid date format. Use YYYY-MM-DD", value |-> ""]

\* the error text of a batch item: the media type message names the value
bulkMessage(kind, item) ==
  IF kind = "missing"
  THEN [text |-> "Missing required fields: title, media_type, or start_date", value |-> ""]
  ELSE IF kind = "type"
  THEN [text |-> "Invalid media type: ", value |-> item.media_type.s]
  ELSE IF kind = "date"
  THEN [text |-> "Invalid date format. Use YYYY-MM-DD", value |-> ""]
  ELSE [text |-> kind, value |-> ""]

\* tags = '' is the destructuring default of an absent field
TagsOf(item) == IF item.tags.k = "undef" THEN Str(<<>>) ELSE item.tags

\* insert the record, then parse and attach its tags (create and bulk item)
insertWithTags(c, item) ==
  LET c1 == insertMedia(c, item)
      p == parseTagsInput(TagsOf(item))
  IN IF c1.err # "" THEN c1
     ELSE IF p.err # "" THEN [c1 EXCEPT !.err = p.err]
     ELSE [setMediaTags(c1, c1.lastID, p.val) EXCEPT !.lastID = c1.lastID]

\* ------------------------------------------------------------- text order
\* the characters of the model in code-point order: the order of SQLite's
\* BINARY collation (ORDER BY, <, >) on these texts
CodeOrder ==
  <<" ", ",", "-", ".", "/", "0", "1", "2", "3", "4", "5", "6", "7", "8", "9",
    "A", "a", "b", "x">>
CharCode(ch) == CHOOSE i \in 1..Len(CodeOrder) : CodeOrder[i] = ch
DigitVal(ch) == CharCode(ch) - CharCode("0")

RECURSIVE TextLess(_, _)
TextLess(s, t) ==
  IF t = <<>> THEN FALSE
  ELSE IF s = <<>> THEN TRUE
  ELSE IF Head(s) = Head(t) THEN TextLess(Tail(s), Tail(t))
  ELSE CharCode(Head(s)) < CharCode(Head(t))

\* --------------------------------------------------------------- parseInt
HexDigit == Digit \cup {"a", "A", "b"}
HexVal(ch) ==
  IF ch \in Digit THEN DigitVal(ch) ELSE IF ch \in {"a", "A"} THEN 10 ELSE 11

RECURSIVE digitsPrefix(_, _)
digitsPrefix(s, digits) ==
  IF s = <<>> \/ Head(s) \notin digits THEN <<>>
  ELSE <<Head(s)>> \o digitsPrefix(Tail(s), digits)

RECURSIVE numberOf(_, _)
numberOf(ds, radix) ==
  IF ds = <<>> THEN 0
  ELSE numberOf(SubSeq(ds, 1, Len(ds) - 1), radix) * radix + HexVal(ds[Len(ds)])

\* parseInt(string) without a radix: an optional sign, an optional 0x, then
\* the longest run of digits; what follows the run is ignored, and a text
\* without such a run gives NaN. raw keeps the text that was parsed.
parseInt(s) ==
  LET neg == s # <<>> /\ Head(s) = "-"
      body == IF s # <<>> /\ Head(s) \in {"-", "+"} THEN Tail(s) ELSE s
      hex == Len(body) >= 2 /\ body[1] = "0" /\ body[2] \in {"x", "X"}
      ds == IF hex THEN digitsPrefix(SubSeq(body, 3, Len(body)), HexDigit)
            ELSE digitsPrefix(body, Digit)
      n == numberOf(ds, IF hex THEN 16 ELSE 10)
  IN IF ds = <<>> THEN [nan |-> TRUE, n |-> 0, raw |-> s]
     ELSE [nan |-> FALSE, n |-> IF neg THEN 0 - n ELSE n, raw |-> s]

\* the decimal text of a positive integer
RECURSIVE ToDigits(_)
ToDigits(n) ==
  IF n < 10 THEN <<CodeOrder[CharCode("0") + n]>>
  ELSE ToDigits(n \div 10) \o <<CodeOrder[CharCode("0") + (n % 10)]>>

\* ------------------------------------------------------------- year query
\* a text SQLite's date functions parse as a date: YYYY-MM-DD with a month
\* of 01..12 and a day of 01..31
IsSqlDate(v) ==
  /\ v.k = "str"
  /\ Len(v.s) = 10
  /\ \A k \in {1, 2, 3, 4, 6, 7, 9, 10} : v.s[k] \in Digit
  /\ v.s[5] = "-"
  /\ v.s[8] = "-"
  /\ 10 * DigitVal(v.s[6]) + DigitVal(v.s[7]) \in 1..12
  /\ 10 * DigitVal(v.s[9]) + DigitVal(v.s[10]) \in 1..31

\* strftime('%Y', value): the four digits of the year, or NULL (here <<>>)
strftimeYear(v) == IF IsSqlDate(v) THEN SubSeq(v.s, 1, 4) ELSE <<>>

\* = and < of SQL: a comparison with NULL is not true
SqlEq(a, b) == a # <<>> /\ b # <<>> /\ a = b
SqlLess(a, b) == a # <<>> /\ b # <<>> /\ TextLess(a, b)

\* the WHERE clause of the year query
whereYear(r, year) ==
  LET sy == strftimeYear(Str(r.start_date))
      ey == strftimeYear(r.end_date)
      notNull == r.end_date.k # "null"
  IN \/ SqlEq(sy, year)
     \/ (notNull /\ SqlEq(ey, year))
     \/ (notNull /\ SqlLess(sy, year) /\ SqlLess(year, ey))
     \/ (~notNull /\ SqlEq(sy, year))

RECURSIVE insertByStart(_, _)
insertByStart(sorted, r) ==
  IF sorted = <<>> THEN <<r>>
  ELSE IF TextLess(r.start_date, Head(sorted).start_date) THEN <<r>> \o sorted
  ELSE <<Head(sorted)>> \o insertByStart(Tail(sorted), r)

\* faulty variant of orderByStartDate: the rows stay in rowid order
orderByRowid(rows) == rows

\* ORDER BY start_date (rows of one start_date stay in rowid order)
RECURSIVE orderByStartDate(_)
orderByStartDate(rows) ==
  IF rows = <<>> THEN <<>>
  ELSE insertByStart(orderByStartDate(SubSeq(rows, 1, Len(rows) - 1)), rows[Len(rows)])

\* SELECT ... FROM media WHERE ... ORDER BY start_date
selectByYear(d, year) ==
  LET Hit(r) == whereYear(r, year)
  IN orderByStartDate(SelectSeq(d.media, Hit))

\* tags t INNER JOIN media_tags mt ON t.id = mt.tag_id WHERE mt.media_id = ?
RECURSIVE joinTags(_, _, _)
joinTags(d, links, mediaId) ==
  IF links = <<>> THEN <<>>
  ELSE LET Match(t) == t.id = Head(links).tag_id
       IN (IF Head(links).media_id = mediaId THEN SelectSeq(d.tags, Match) ELSE <<>>)
            \o joinTags(d, Tail(links), mediaId)

RECURSIVE insertByName(_, _)
insertByName(sorted, t) ==
  IF sorted = <<>> THEN <<t>>
  ELSE IF TextLess(t.name, Head(sorted).name) THEN <<t>> \o sorted
  ELSE <<Head(sorted)>> \o insertByName(Tail(sorted), t)

RECURSIVE orderByName(_)
orderByName(rows) ==
  IF rows = <<>> THEN <<>>
  ELSE insertByName(orderByName(SubSeq(rows, 1, Len(rows) - 1)), rows[Len(rows)])

\* faulty variant of getMediaTags: the query has no ORDER BY
getMediaTagsUnordered(d, mediaId) == joinTags(d, d.media_tags, mediaId)

\* getMediaTags(mediaId): the joined rows, ORDER BY t.name
getMediaTags(d, mediaId) == orderByName(joinTags(d, d.media_tags, mediaId))

\* mediaTags.map((t) => t.name).join(', ')
RECURSIVE joinNames(_)
joinNames(tags) ==
  IF tags = <<>> THEN <<>>
  ELSE IF Len(tags) = 1 THEN tags[1].name
  ELSE tags[1].name \o <<",", " ">> \o joinNames(Tail(tags))

\* an entry of the answer: the row, its tags field set from getMediaTags
entryOf(d, r) ==
  [id |-> r.id, title |-> r.title, media_type |-> r.media_type,
   start_date |-> r.start_date, end_date |-> r.end_date,
   notes |-> r.notes, discontinued |-> r.discontinued,
   tags |-> joinNames(getMediaTags(d, r.id))]

\* ------------------------------------------------------------------- state
VARIABLES
  db,      \* the database as committed or, inside a transaction, as written
  txn,     \* the handle's transaction: active, and the database at BEGIN
  bulk,    \* the bulk handler's position, loop index, results and call counts
  req,     \* the request being served, or the last one served
  resp,    \* the response to req (status 0 while none has been sent)
  pre,     \* the database when the request in req arrived
  nreq,    \* requests accepted so far
  nfault,  \* storage failures injected so far
  tagIn,   \* the normalizer's input (SpecTags)
  tagOut,  \* the normalizer's result, and its result on that result (SpecTags)
  proc,    \* the handlers that run interleaved (SpecRace): position and locals
  life     \* the process: the handle db, the HTTP server, the signals (SpecLife)

vars == <<db, txn, bulk, req, resp, pre, nreq, nfault, tagIn, tagOut, proc, life>>

\* life.handle: the module variable db ("unset", "open", or "closed": set to
\* a handle that was closed); opens, closes: calls of open() and db.close();
\* server: the HTTP server; callbacks: callbacks of server.close() that wait
\* for the 'close' event; signals: SIGTERMs received; exited: process.exit ran
\* inits: calls of initDb
NotStarted ==
  [handle |-> "unset", opens |-> 0, closes |-> 0, inits |-> 0, server |-> "none",
   callbacks |-> 0, signals |-> 0, exited |-> FALSE]
\* after startServer: initDb has opened the handle, the server listens
Serving ==
  [NotStarted EXCEPT !.handle = "open", !.opens = 1, !.inits = 1,
                     !.server = "listening"]

NoTxn == [active |-> FALSE, snap |-> EmptyDb]
NoResults == [success |-> <<>>, failed |-> <<>>, total |-> 0]
IdleBulk ==
  [pc |-> "idle", i |-> 0, results |-> NoResults,
   begins |-> 0, commits |-> 0, rollbacks |-> 0, cause |-> ""]
NoMessage == [text |-> "", value |-> ""]
NoItem ==
  [k |-> "obj", title |-> UndefT, media_type |-> UndefT, start_date |-> Undef,
   end_date |-> Undef, tags |-> Undef, notes |-> Undef, discontinued |-> Undef]
NoId == [nan |-> TRUE, n |-> 0, raw |-> <<>>]
NoTagOut ==
  [done |-> FALSE, err |-> "", val |-> <<>>,
   again |-> FALSE, err2 |-> "", val2 |-> <<>>]

\* the handlers in flight at once, and one that has not started
Procs == {1, 2}
IdleProc ==
  [pc |-> "idle", op |-> "none", item |-> NoItem, id |-> 0, names |-> <<>>,
   tagId |-> 0, status |-> 0, seen |-> {},
   items |-> <<>>, i |-> 0, results |-> NoResults]

Request(op, idp, item, items) ==
  [op |-> op, idp |-> idp, item |-> item, items |-> items, year |-> <<>>,
   names |-> <<>>, fault |-> ""]
Response(op, status, id, error) ==
  [op |-> op, status |-> status, id |-> id, error |-> error,
   hasResults |-> FALSE, results |-> NoResults, entries |-> <<>>]
BulkResponse(status, results) ==
  [op |-> "bulk", status |-> status, id |-> 0, error |-> NoMessage,
   hasResults |-> TRUE, results |-> results, entries |-> <<>>]

Fired(c) == IF c.err = "SQLITE_ERROR" THEN 1 ELSE 0

\* ------------------------------------------------------ POST /api/media
PostMedia(item, fault) ==
  /\ bulk.pc = "idle"
  /\ fault = "" \/ nfault < MaxFaults
  /\ LET verr == validationError(item)
         c == insertWithTags(Ctx(db, fault), item)
     IN IF verr # ""
        THEN /\ db' = db
             /\ nfault' = nfault
             /\ resp' = Response("create", 400, 0, singleMessage(verr, item))
        ELSE /\ db' = c.db
             /\ nfault' = nfault + Fired(c)
             /\ resp' = IF c.err # ""
                        THEN Response("create", 500, 0,
                                      [text |-> "Internal server error", value |-> ""])
                        ELSE Response("create", 201, c.lastID, NoMessage)
  /\ req' = Request("create", NoId, item, Undef)
  /\ pre' = db
  /\ nreq' = nreq + 1
  /\ bulk' = IdleBulk
  /\ UNCHANGED <<txn, tagIn, tagOut, proc, life>>

\* ------------------------------------------------------ PUT /api/media/:id
PutMedia(idp, item, fault) ==
  /\ bulk.pc = "idle"
  /\ fault = "" \/ nfault < MaxFaults
  /\ LET verr == validationError(item)
         c1 == updateMedia(Ctx(db, fault), idp.n, item)
         p == parseTagsInput(TagsOf(item))
         c2 == IF p.err # "" THEN [c1 EXCEPT !.err = p.err]
               ELSE setMediaTags(c1, idp.n, p.val)
     IN IF idp.nan
        THEN /\ db' = db
             /\ nfault' = nfault
             /\ resp' = Response("update", 400, 0,
                                 [text |-> "Invalid media ID", value |-> ""])
        ELSE IF verr # ""
        THEN /\ db' = db
             /\ nfault' = nfault
             /\ resp' = Response("update", 400, 0, singleMessage(verr, item))
        ELSE IF c1.err # ""
        THEN /\ db' = c1.db
             /\ nfault' = nfault + Fired(c1)
             /\ resp' = Response("update", 500, 0,
                                 [text |-> "Internal server error", value |-> ""])
        ELSE IF c1.changes = 0
        THEN /\ db' = c1.db
             /\ nfault' = nfault
             /\ resp' = Response("update", 404, 0,
                                 [text |-> "Media entry not found", value |-> ""])
        ELSE /\ db' = c2.db
             /\ nfault' = nfault + Fired(c2)
             /\ resp' = IF c2.err # ""
                        THEN Response("update", 500, 0,
                                      [text |-> "Internal server error", value |-> ""])
                        ELSE Response("update", 200, idp.n, NoMessage)
  /\ req' = Request("update", idp, item, Undef)
  /\ pre' = db
  /\ nreq' = nreq + 1
  /\ bulk' = IdleBulk
  /\ UNCHANGED <<txn, tagIn, tagOut, proc, life>>

\* --------------------------------------------------- DELETE /api/media/:id
DeleteMedia(idp, fault) ==
  /\ bulk.pc = "idle"
  /\ fault = "" \/ nfault < MaxFaults
  /\ LET c == deleteMedia(Ctx(db, fault), idp.n)
     IN IF idp.nan
        THEN /\ db' = db
             /\ nfault' = nfault
             /\ resp' = Response("delete", 400, 0,
                                 [text |-> "Invalid media ID", value |-> ""])
        ELSE /\ db' = c.db
             /\ nfault' = nfault + Fired(c)
             /\ resp' = IF c.err # ""
                        THEN Response("delete", 500, 0,
                                      [text |-> "Internal server error", value |-> ""])
                        ELSE IF c.changes = 0
                        THEN Response("delete", 404, 0,
                                      [text |-> "Media entry not found", value |-> ""])
                        ELSE Response("delete", 200, idp.n, NoMessage)
  /\ req' = Request("delete", idp, NoItem, Undef)
  /\ pre' = db
  /\ nreq' = nreq + 1
  /\ bulk' = IdleBulk
  /\ UNCHANGED <<txn, tagIn, tagOut, proc, life>>

\* ----------------------------------------------------- POST /api/media/bulk
\* faulty variant of itemsError: the empty array is let through
itemsErrorNoEmptyCheck(items) ==
  IF items.k # "list"
  THEN "Items must be a non-empty array"
  ELSE IF Len(items.l) > BULK_LIMIT
  THEN "Cannot insert more than 200 items at once"
  ELSE ""

\* the two early returns before any storage call ("": the batch is accepted)
itemsError(items) ==
  IF items.k # "list" \/ Len(items.l) = 0
  THEN "Items must be a non-empty array"
  ELSE IF Len(items.l) > BULK_LIMIT
  THEN "Cannot insert more than 200 items at once"
  ELSE ""

\* the loop condition i < items.length, negated
LoopDone(i, n) == ~(i < n)

\* faulty variant of statusCode: a batch with no success is not a 207
statusCodeNoSuccess(results) ==
  IF Len(results.failed) = 0 THEN 201
  ELSE IF Len(results.success) = 0 THEN 400
  ELSE 207

\* results.failed.length === 0 ? 201 : 207
statusCode(results) == IF Len(results.failed) = 0 THEN 201 ELSE 207

\* faulty variant of processItem: a validation failure is recorded without
\* the item's own index (the index of the loop's next pass)
processItemNextIndex(d, item, i, fault, results) ==
  LET verr == validationError(item)
      c == insertWithTags(Ctx(d, fault), item)
      title == IF TruthyT(item.title) THEN item.title.s ELSE "Unknown"
  IN IF verr # ""
     THEN [db |-> d, fired |-> 0,
           results |-> [results EXCEPT !.failed =
              Append(@, [index |-> i + 1, title |-> title,
                         error |-> bulkMessage(verr, item)])]]
     ELSE IF c.err # ""
     THEN [db |-> c.db, fired |-> Fired(c),
           results |-> [results EXCEPT !.failed =
              Append(@, [index |-> i, title |-> title,
                         error |-> bulkMessage(c.err, item)])]]
     ELSE [db |-> c.db, fired |-> 0,
           results |-> [results EXCEPT !.success =
              Append(@, [index |-> i, id |-> c.lastID, title |-> item.title.s])]]

\* the body of the inner try for item i, and its catch
processItem(d, item, i, fault, results) ==
  LET verr == validationError(item)
      c == insertWithTags(Ctx(d, fault), item)
      title == IF TruthyT(item.title) THEN item.title.s ELSE "Unknown"
  IN IF verr # ""
     THEN [db |-> d, fired |-> 0,
           results |-> [results EXCEPT !.failed =
              Append(@, [index |-> i, title |-> title,
                         error |-> bulkMessage(verr, item)])]]
     ELSE IF c.err # ""
     THEN [db |-> c.db, fired |-> Fired(c),
           results |-> [results EXCEPT !.failed =
              Append(@, [index |-> i, title |-> title,
                         error |-> bulkMessage(c.err, item)])]]
     ELSE [db |-> c.db, fired |-> 0,
           results |-> [results EXCEPT !.success =
              Append(@, [index |-> i, id |-> c.lastID, title |-> item.title.s])]]

\* faulty variant of BulkStart: BEGIN is inside the try, so that its
\* rejection reaches the catch that issues ROLLBACK
BulkStartBeginInsideTry(items, fault) ==
  /\ bulk.pc = "idle"
  /\ fault = "" \/ nfault < MaxFaults
  /\ req' = Request("bulk", NoId, NoItem, items)
  /\ pre' = db
  /\ nreq' = nreq + 1
  /\ db' = db
  /\ IF itemsError(items) # ""
     THEN /\ resp' = Response("bulk", 400, 0, [text |-> itemsError(items), value |-> ""])
          /\ bulk' = IdleBulk
          /\ UNCHANGED <<txn, nfault>>
     ELSE IF fault # "" \/ txn.active
     THEN /\ resp' = Response("bulk", 0, 0, NoMessage)
          /\ bulk' = [IdleBulk EXCEPT !.pc = "rollback", !.begins = 1,
                                      !.cause = "begin"]
          /\ nfault' = nfault + (IF fault # "" THEN 1 ELSE 0)
          /\ UNCHANGED txn
     ELSE /\ txn' = [active |-> TRUE, snap |-> db]
          /\ bulk' = [IdleBulk EXCEPT !.pc = "loop", !.begins = 1,
                                      !.results.total = Len(items.l)]
          /\ resp' = Response("bulk", 0, 0, NoMessage)
          /\ UNCHANGED nfault
  /\ UNCHANGED <<tagIn, tagOut, proc, life>>

\* the handler up to and including BEGIN TRANSACTION
BulkStart(items, fault) ==
  /\ bulk.pc = "idle"
  /\ fault = "" \/ nfault < MaxFaults
  /\ req' = Request("bulk", NoId, NoItem, items)
  /\ pre' = db
  /\ nreq' = nreq + 1
  /\ db' = db
  /\ IF itemsError(items) # ""
     THEN /\ resp' = Response("bulk", 400, 0, [text |-> itemsError(items), value |-> ""])
          /\ bulk' = IdleBulk
          /\ UNCHANGED <<txn, nfault>>
     ELSE IF fault # "" \/ txn.active
     THEN \* BEGIN rejects: the outer catch answers, no ROLLBACK is issued
          /\ resp' = Response("bulk", 500, 0,
                 [text |-> "Internal server error during bulk insert", value |-> ""])
          /\ bulk' = [IdleBulk EXCEPT !.begins = 1, !.cause = "begin"]
          /\ nfault' = nfault + (IF fault # "" THEN 1 ELSE 0)
          /\ UNCHANGED txn
     ELSE /\ txn' = [active |-> TRUE, snap |-> db]
          /\ bulk' = [IdleBulk EXCEPT !.pc = "loop", !.begins = 1,
                                      !.results.total = Len(items.l)]
          /\ resp' = Response("bulk", 0, 0, NoMessage)
          /\ UNCHANGED nfault
  /\ UNCHANGED <<tagIn, tagOut, proc, life>>

\* one pass of the for loop
BulkItem(fault) ==
  /\ bulk.pc = "loop"
  /\ ~LoopDone(bulk.i, Len(req.items.l))
  /\ fault = "" \/ nfault < MaxFaults
  /\ LET item == req.items.l[bulk.i + 1]
         out == processItem(db, item, bulk.i, fault, bulk.results)
     IN IF item.k = "null"
        THEN \* destructuring null throws outside the inner try
             /\ bulk' = [bulk EXCEPT !.pc = "rollback", !.cause = "item"]
             /\ UNCHANGED <<db, nfault>>
        ELSE /\ db' = out.db
             /\ nfault' = nfault + out.fired
             /\ bulk' = [bulk EXCEPT !.i = @ + 1, !.results = out.results]
  /\ UNCHANGED <<txn, req, resp, pre, nreq, tagIn, tagOut, proc, life>>

\* COMMIT after the loop, and the response. mode "ok": the commit succeeds;
\* "busy": it fails and leaves the transaction open; "auto": it fails and the
\* engine has rolled the transaction back by itself.
BulkCommit(mode) ==
  /\ bulk.pc = "loop"
  /\ LoopDone(bulk.i, Len(req.items.l))
  /\ mode = "ok" \/ nfault < MaxFaults
  /\ IF mode = "ok" /\ txn.active
     THEN /\ txn' = NoTxn
          /\ db' = db
          /\ resp' = BulkResponse(statusCode(bulk.results), bulk.results)
          /\ bulk' = [bulk EXCEPT !.pc = "idle", !.commits = @ + 1]
          /\ nfault' = nfault
     ELSE /\ txn' = IF mode = "auto" THEN NoTxn ELSE txn
          /\ db' = IF mode = "auto" /\ txn.active THEN txn.snap ELSE db
          /\ resp' = resp
          /\ bulk' = [bulk EXCEPT !.pc = "rollback", !.commits = @ + 1,
                                  !.cause = "commit"]
          /\ nfault' = nfault + (IF mode = "ok" THEN 0 ELSE 1)
  /\ UNCHANGED <<req, pre, nreq, tagIn, tagOut, proc, life>>

\* faulty variant of BulkRollback: the catch answers without ROLLBACK
BulkRollbackMissing ==
  /\ bulk.pc = "rollback"
  /\ db' = db
  /\ txn' = NoTxn
  /\ resp' = Response("bulk", 500, 0,
         [text |-> "Internal server error during bulk insert", value |-> ""])
  /\ bulk' = [bulk EXCEPT !.pc = "idle"]
  /\ UNCHANGED <<req, pre, nreq, nfault, tagIn, tagOut, proc, life>>

\* the catch around the loop: ROLLBACK, rethrow, and the outer catch's answer
BulkRollback ==
  /\ bulk.pc = "rollback"
  /\ db' = IF txn.active THEN txn.snap ELSE db
  /\ txn' = NoTxn
  /\ resp' = Response("bulk", 500, 0,
         [text |-> "Internal server error during bulk insert", value |-> ""])
  /\ bulk' = [bulk EXCEPT !.pc = "idle", !.rollbacks = @ + 1]
  /\ UNCHANGED <<req, pre, nreq, nfault, tagIn, tagOut, proc, life>>

\* ------------------------------------- setMediaTags(mediaId, tagNames)
\* a call of the exported function; resp.error.text is the error it throws
CallSetMediaTags(mediaId, tagNames, fault) ==
  /\ bulk.pc = "idle"
  /\ fault = "" \/ nfault < MaxFaults
  /\ LET c == setMediaTags(Ctx(db, fault), mediaId, tagNames)
     IN /\ db' = c.db
        /\ nfault' = nfault + Fired(c)
        /\ resp' = Response("setMediaTags", 0, mediaId, [text |-> c.err, value |-> ""])
  /\ req' = [Request("setMediaTags", NoId, NoItem, Undef) EXCEPT
               !.idp.n = mediaId, !.idp.nan = FALSE,
               !.names = tagNames, !.fault = fault]
  /\ pre' = db
  /\ nreq' = nreq + 1
  /\ bulk' = IdleBulk
  /\ UNCHANGED <<txn, tagIn, tagOut, proc, life>>

\* ------------------------------------------------- GET /api/media?year=
GetMedia(year, fault) ==
  /\ bulk.pc = "idle"
  /\ fault = "" \/ nfault < MaxFaults
  /\ LET c == NoColumn(Tick(Ctx(db, fault), "SELECT media"), QueryColumns)
         rows == selectByYear(db, year)
     IN /\ resp' = IF c.err # ""
                   THEN Response("query", 500, 0,
                                 [text |-> "Internal server error", value |-> ""])
                   ELSE [Response("query", 200, 0, NoMessage) EXCEPT
                           !.entries = [k \in 1..Len(rows) |-> entryOf(db, rows[k])]]
        /\ nfault' = nfault + Fired(c)
  /\ req' = [Request("query", NoId, NoItem, Undef) EXCEPT !.year = year]
  /\ pre' = db
  /\ nreq' = nreq + 1
  /\ bulk' = IdleBulk
  /\ UNCHANGED <<db, txn, tagIn, tagOut, proc, life>>

\* ------------------------------------- create and update, call by call
\* Two handlers share the handle db. A handler runs alone from one await to
\* the next; each action below is one storage call of handler p and the
\* synchronous code behind it, up to the next storage call or the response.
TagNameSet(d) == {t.name : t \in Rows(d.tags)}
Answered(q, status) == [q EXCEPT !.pc = "done", !.status = status]
SuccessStatus(q) == IF q.op = "create" THEN 201 ELSE 200

\* if (trimmedTag.length === 0) continue
RECURSIVE skipBlank(_)
skipBlank(names) ==
  IF names = <<>> THEN <<>>
  ELSE IF Len(toLowerCase(trim(Head(names)))) = 0 THEN skipBlank(Tail(names))
  ELSE names

\* the handler up to its first storage call: the id and body checks
RaceStart(p, op, idp, item) ==
  /\ proc[p].pc \in {"idle", "done"}
  /\ LET q == [IdleProc EXCEPT !.op = op, !.item = item, !.id = idp.n,
                               !.seen = TagNameSet(db)]
     IN proc' = [proc EXCEPT ![p] =
          IF op = "update" /\ idp.nan THEN Answered(q, 400)
          ELSE IF validationError(item) # "" THEN Answered(q, 400)
          ELSE [q EXCEPT !.pc = IF op = "create" THEN "insert" ELSE "update"]]
  /\ nreq' = nreq + 1
  /\ UNCHANGED <<db, txn, bulk, req, resp, pre, nfault, tagIn, tagOut, life>>

\* INSERT INTO media, then parseTagsInput
RaceInsertMedia(p) ==
  /\ proc[p].pc = "insert"
  /\ LET c == insertMedia(Ctx(db, ""), proc[p].item)
         parsed == parseTagsInput(TagsOf(proc[p].item))
         q == [proc[p] EXCEPT !.id = c.lastID]
     IN /\ db' = c.db
        /\ proc' = [proc EXCEPT ![p] =
             IF c.err # "" THEN Answered(proc[p], 500)
             ELSE IF parsed.err # "" THEN Answered(q, 500)
             ELSE [q EXCEPT !.pc = "unlink", !.names = parsed.val]]
  /\ UNCHANGED <<txn, bulk, req, resp, pre, nreq, nfault, tagIn, tagOut, life>>

\* UPDATE media, the 404 of result.changes === 0, then parseTagsInput
RaceUpdateMedia(p) ==
  /\ proc[p].pc = "update"
  /\ LET c == updateMedia(Ctx(db, ""), proc[p].id, proc[p].item)
         parsed == parseTagsInput(TagsOf(proc[p].item))
     IN /\ db' = c.db
        /\ proc' = [proc EXCEPT ![p] =
             IF c.err # "" THEN Answered(@, 500)
             ELSE IF c.changes = 0 THEN Answered(@, 404)
             ELSE IF parsed.err # "" THEN Answered(@, 500)
             ELSE [@ EXCEPT !.pc = "unlink", !.names = parsed.val]]
  /\ UNCHANGED <<txn, bulk, req, resp, pre, nreq, nfault, tagIn, tagOut, life>>

\* setMediaTags: DELETE FROM media_tags, and the early return
RaceDeleteLinks(p) ==
  /\ proc[p].pc = "unlink"
  /\ LET c == deleteMediaTags(Ctx(db, ""), proc[p].id)
         rest == skipBlank(proc[p].names)
     IN /\ db' = c.db
        /\ proc' = [proc EXCEPT ![p] =
             IF rest = <<>> THEN Answered(@, SuccessStatus(@))
             ELSE [@ EXCEPT !.pc = "select", !.names = rest]]
  /\ UNCHANGED <<txn, bulk, req, resp, pre, nreq, nfault, tagIn, tagOut, life>>

\* setMediaTags: SELECT id FROM tags WHERE name = ?
RaceSelectTag(p) ==
  /\ proc[p].pc = "select"
  /\ LET c == selectTag(Ctx(db, ""), toLowerCase(trim(Head(proc[p].names))))
     IN proc' = [proc EXCEPT ![p] =
          IF c.lastID = 0 THEN [@ EXCEPT !.pc = "mktag"]
          ELSE [@ EXCEPT !.pc = "link", !.tagId = c.lastID]]
  /\ UNCHANGED <<db, txn, bulk, req, resp, pre, nreq, nfault, tagIn, tagOut, life>>

\* setMediaTags: INSERT INTO tags; its rejection is not caught there, and
\* the handler's catch answers 500
RaceInsertTag(p) ==
  /\ proc[p].pc = "mktag"
  /\ LET c == insertTag(Ctx(db, ""), toLowerCase(trim(Head(proc[p].names))))
     IN /\ db' = c.db
        /\ proc' = [proc EXCEPT ![p] =
             IF c.err # "" THEN Answered(@, 500)
             ELSE [@ EXCEPT !.pc = "link", !.tagId = c.lastID]]
  /\ UNCHANGED <<txn, bulk, req, resp, pre, nreq, nfault, tagIn, tagOut, life>>

\* setMediaTags: INSERT INTO media_tags (a uniqueness conflict is ignored),
\* then the next name or the response
RaceInsertLink(p) ==
  /\ proc[p].pc = "link"
  /\ LET c == insertMediaTag(Ctx(db, ""), proc[p].id, proc[p].tagId)
         rest == skipBlank(Tail(proc[p].names))
     IN /\ db' = c.db
        /\ proc' = [proc EXCEPT ![p] =
             IF c.err \notin {"", "UNIQUE constraint failed"} THEN Answered(@, 500)
             ELSE IF rest = <<>> THEN Answered([@ EXCEPT !.names = rest], SuccessStatus(@))
             ELSE [@ EXCEPT !.pc = "select", !.names = rest]]
  /\ UNCHANGED <<txn, bulk, req, resp, pre, nreq, nfault, tagIn, tagOut, life>>

\* The bulk handler as one of the overlapping handlers. All handlers issue
\* their statements on the one database handle: a statement issued while a
\* transaction is open on it runs inside that transaction, and BEGIN is
\* rejected while one is open.

\* the handler up to and including BEGIN TRANSACTION
RaceBulkStart(p, items) ==
  /\ proc[p].pc \in {"idle", "done"}
  /\ LET q == [IdleProc EXCEPT !.op = "bulk", !.seen = TagNameSet(db),
                               !.items = IF itemsError(items) = "" THEN items.l
                                         ELSE <<>>]
     IN IF itemsError(items) # ""
        THEN /\ proc' = [proc EXCEPT ![p] = Answered(q, 400)]
             /\ UNCHANGED txn
        ELSE IF txn.active
        THEN \* BEGIN rejects: the outer catch answers, no ROLLBACK is issued
             /\ proc' = [proc EXCEPT ![p] = Answered(q, 500)]
             /\ UNCHANGED txn
        ELSE /\ txn' = [active |-> TRUE, snap |-> db]
             /\ proc' = [proc EXCEPT ![p] =
                  [q EXCEPT !.pc = "bloop", !.results.total = Len(items.l)]]
  /\ nreq' = nreq + 1
  /\ UNCHANGED <<db, bulk, req, resp, pre, nfault, tagIn, tagOut, life>>

\* one pass of the for loop
RaceBulkItem(p) ==
  /\ proc[p].pc = "bloop"
  /\ ~LoopDone(proc[p].i, Len(proc[p].items))
  /\ LET item == proc[p].items[proc[p].i + 1]
         out == processItem(db, item, proc[p].i, "", proc[p].results)
     IN IF item.k = "null"
        THEN /\ proc' = [proc EXCEPT ![p].pc = "brollback"]
             /\ db' = db
        ELSE /\ db' = out.db
             /\ proc' = [proc EXCEPT ![p].i = @ + 1, ![p].results = out.results]
  /\ UNCHANGED <<txn, bulk, req, resp, pre, nreq, nfault, tagIn, tagOut, life>>

\* COMMIT after the loop, and the response
RaceBulkCommit(p) ==
  /\ proc[p].pc = "bloop"
  /\ LoopDone(proc[p].i, Len(proc[p].items))
  /\ IF txn.active
     THEN /\ txn' = NoTxn
          /\ proc' = [proc EXCEPT ![p] = Answered(@, statusCode(@.results))]
     ELSE /\ txn' = txn
          /\ proc' = [proc EXCEPT ![p].pc = "brollback"]
  /\ UNCHANGED <<db, bulk, req, resp, pre, nreq, nfault, tagIn, tagOut, life>>

\* the catch around the loop: ROLLBACK, rethrow, and the outer catch's answer
RaceBulkRollback(p) ==
  /\ proc[p].pc = "brollback"
  /\ db' = IF txn.active THEN txn.snap ELSE db
  /\ txn' = NoTxn
  /\ proc' = [proc EXCEPT ![p] = Answered(@, 500)]
  /\ UNCHANGED <<bulk, req, resp, pre, nreq, nfault, tagIn, tagOut, life>>

\* ------------------------------------------- startServer, initDb, SIGTERM
\* a handler is between two of its storage calls
InFlight(p) == proc[p].pc \notin {"idle", "done"}

\* the call of the exported initDb: opens the file and sets up the schema
\* when the module variable db is unset, returns the variable otherwise
InitDb ==
  /\ ~life.exited
  /\ life.inits < MaxInits
  /\ IF life.handle = "unset"
     THEN /\ life' = [life EXCEPT !.handle = "open", !.opens = @ + 1, !.inits = @ + 1]
          /\ db' = initDb(db)
          /\ pre' = db
     ELSE /\ life' = [life EXCEPT !.inits = @ + 1]
          /\ UNCHANGED <<db, pre>>
  /\ UNCHANGED <<txn, bulk, req, resp, nreq, nfault, tagIn, tagOut, proc>>

\* startServer: initDb, app.listen, and the registration of the SIGTERM
\* handler
StartServer ==
  /\ ~life.exited
  /\ life.server = "none"
  /\ life.inits < MaxInits
  /\ IF life.handle = "unset"
     THEN /\ life' = [life EXCEPT !.handle = "open", !.opens = @ + 1, !.inits = @ + 1,
                                  !.server = "listening"]
          /\ db' = initDb(db)
          /\ pre' = db
     ELSE /\ life' = [life EXCEPT !.inits = @ + 1, !.server = "listening"]
          /\ UNCHANGED <<db, pre>>
  /\ UNCHANGED <<txn, bulk, req, resp, nreq, nfault, tagIn, tagOut, proc>>

\* the SIGTERM handler: server.close(callback). The server stops accepting;
\* the callback waits for the 'close' event, which a server that is already
\* closed emits again
Sigterm ==
  /\ ~life.exited
  /\ life.server # "none"
  /\ life.signals < MaxSignals
  /\ life' = [life EXCEPT !.signals = @ + 1, !.callbacks = @ + 1,
                          !.server = IF @ = "listening" THEN "closing" ELSE @]
  /\ UNCHANGED <<db, txn, bulk, req, resp, pre, nreq, nfault, tagIn, tagOut, proc>>

\* the server emits 'close' once no connection is left
EmitClose ==
  /\ ~life.exited
  /\ life.server = "closing"
  /\ \A p \in Procs : ~InFlight(p)
  /\ life' = [life EXCEPT !.server = "closed"]
  /\ UNCHANGED <<db, txn, bulk, req, resp, pre, nreq, nfault, tagIn, tagOut, proc>>

\* one callback of server.close: if (db) await db.close()
CloseCallback ==
  /\ ~life.exited
  /\ life.server = "closed"
  /\ life.callbacks > 0
  /\ life' = [life EXCEPT !.callbacks = @ - 1,
                          !.closes = IF life.handle = "unset" THEN @ ELSE @ + 1,
                          !.handle = IF @ = "unset" THEN @ ELSE "closed"]
  /\ UNCHANGED <<db, txn, bulk, req, resp, pre, nreq, nfault, tagIn, tagOut, proc>>

\* process.exit(0), after the await of db.close()
Exit ==
  /\ ~life.exited
  /\ life.closes > 0
  /\ life' = [life EXCEPT !.exited = TRUE]
  /\ UNCHANGED <<db, txn, bulk, req, resp, pre, nreq, nfault, tagIn, tagOut, proc>>

\* ------------------------------------------------------------------ inputs
Date(y4, m2, d2) == y4 \o <<"-">> \o m2 \o <<"-">> \o d2
GoodStart == Str(Date(<<"2", "0", "2", "4">>, <<"0", "1">>, <<"0", "5">>))
GoodEnd == Str(Date(<<"2", "0", "2", "5">>, <<"0", "3">>, <<"1", "0">>))
BadDate == Str(<<"2", "0", "2", "4", "/", "1", "/", "5">>)

Item(title, type, start, end, tags) ==
  [k |-> "obj", title |-> title, media_type |-> type, start_date |-> start,
   end_date |-> end, tags |-> tags, notes |-> Undef, discontinued |-> Undef]
ValidItem(tags) == Item(Txt("T"), Txt("book"), GoodStart, Undef, tags)

\* tag inputs of the requests: absent, a string with a duplicate after
\* case-folding, a list with padding, a string of two names, a list holding
\* a number
TagChoices ==
  { Undef,
    Str(<<"a", ",", "A">>),
    List(<<Str(<<" ", "b">>)>>),
    Str(<<"A", ",", " ", "b">>),
    List(<<Num>>) }

InvalidItems ==
  { Item(UndefT, Txt("book"), GoodStart, Undef, Undef),
    Item(Txt("T"), Txt("podcast"), GoodStart, Undef, Undef),
    Item(Txt("T"), Txt("movie"), BadDate, Undef, Undef),
    Item(Txt("T"), Txt("movie"), GoodStart, BadDate, Undef) }

Items ==
  {ValidItem(t) : t \in TagChoices}
    \cup {Item(Txt("T"), Txt("series"), GoodStart, GoodEnd, Undef)}
    \cup InvalidItems

\* a batch element that is not an object: JSON null
NullItem == [NoItem EXCEPT !.k = "null"]

BulkItems ==
  { ValidItem(Str(<<"A", ",", " ", "b">>)), ValidItem(List(<<Num>>)),
    Item(UndefT, Txt("book"), GoodStart, Undef, Undef),
    Item(Txt("T"), Txt("podcast"), GoodStart, Undef, Undef),
    Item(Txt("T"), Txt("movie"), GoodStart, BadDate, Undef),
    NullItem }

\* the batch elements of the requests that run among creates and updates
FewBulkItems ==
  { ValidItem(Str(<<"A", ",", " ", "b">>)), ValidItem(List(<<Num>>)) }

SeqsUpTo(S, n) == UNION {[1..m -> S] : m \in 0..n}

\* the items field of a bulk body: absent, not an array, or a short array
ShortBatches ==
  {Undef, Str(<<>>)} \cup {List(l) : l \in SeqsUpTo(BulkItems, MaxBatch)}
\* an array one over the limit of 200
OverLimit == List([k \in 1..(BULK_LIMIT + 1) |-> ValidItem(Undef)])
FewBatches ==
  {Undef, Str(<<>>), OverLimit}
    \cup {List(l) : l \in SeqsUpTo(FewBulkItems, MaxBatch)}

\* arrays at the limit of 200: one under, at, and one over
LongBatches ==
  {List([k \in 1..n |-> ValidItem(Undef)]) : n \in {BULK_LIMIT, BULK_LIMIT + 1}}

\* the id of an update or delete path: a text that is no number, an id the
\* table has assigned, or the next one, which it has not
IdPaths(d) == {<<"x">>} \cup {ToDigits(k) : k \in 1..(d.seq_media + 1)}
IdParams(d) == {parseInt(path) : path \in IdPaths(d)}

\* the statement at which the storage engine fails ("": nowhere)
TagFaults == {"DELETE media_tags", "SELECT tags", "INSERT tags", "INSERT media_tags"}
InsertFaults == {"", "INSERT media"} \cup TagFaults
UpdateFaults == {"", "UPDATE media"} \cup TagFaults
DeleteFaults == {"", "DELETE media"}
\* in a batch item: before its first write, and after its last
ItemFaults == {"", "INSERT media", "INSERT media_tags"}
BeginFaults == {"", "BEGIN"}
QueryFaults == {"", "SELECT media"}

\* database files that initDb finds. A row of a table without the column
\* discontinued carries NoValue there.
LegacyRow(id, end, discontinued, tags) ==
  [id |-> id, title |-> "T", media_type |-> "book", start_date |-> GoodStart.s,
   end_date |-> end, notes |-> Str(<<>>), discontinued |-> discontinued,
   tags |-> tags]
\* no file yet
NoFile == [EmptyDb EXCEPT !.columns = {}, !.tagTables = FALSE]
\* the first layout: end_date NOT NULL, none of the added columns; row 1 was
\* deleted
OldestDb ==
  [NoFile EXCEPT !.columns = {"title", "media_type", "start_date", "end_date", "notes"},
                 !.notnull = TRUE,
                 !.media = <<LegacyRow(2, GoodEnd, NoValue, Null)>>,
                 !.seq_media = 2]
\* the layout with the tags text column: end_date NOT NULL, no tag tables
TagsTextDb ==
  [NoFile EXCEPT !.columns = CreatedColumns,
                 !.notnull = TRUE,
                 !.media = <<LegacyRow(1, GoodEnd, NoValue, Str(<<"A", ",", " ", "b">>)),
                             LegacyRow(2, GoodEnd, NoValue, Str(<<"a", ",">>))>>,
                 !.seq_media = 2]
\* the tags text column with end_date already nullable
NullableDb ==
  [TagsTextDb EXCEPT !.notnull = FALSE,
                     !.media = <<LegacyRow(1, Null, NoValue, Str(<<"b">>))>>,
                     !.seq_media = 1]
\* a file of the current layout
CurrentDb ==
  [EmptyDb EXCEPT !.media = <<LegacyRow(1, Null, 1, Null)>>, !.seq_media = 1,
                  !.tags = <<[id |-> 1, name |-> <<"a">>]>>, !.seq_tags = 1,
                  !.media_tags = <<[media_id |-> 1, tag_id |-> 1]>>]
DatabaseFiles == {NoFile, OldestDb, TagsTextDb, NullableDb, CurrentDb, initDb(OldestDb)}

\* ----------------------------------------------------------- specifications
Init ==
  /\ db = EmptyDb
  /\ txn = NoTxn
  /\ bulk = IdleBulk
  /\ req = Request("none", NoId, NoItem, Undef)
  /\ resp = Response("none", 0, 0, NoMessage)
  /\ pre = EmptyDb
  /\ nreq = 0
  /\ nfault = 0
  /\ tagIn = Undef
  /\ tagOut = NoTagOut
  /\ proc = [p \in Procs |-> IdleProc]
  /\ life = Serving

\* the requests served one after another
Next ==
  \/ /\ nreq < MaxRequests
     /\ \/ \E item \in Items, fault \in InsertFaults : PostMedia(item, fault)
        \/ \E idp \in IdParams(db), item \in Items, fault \in UpdateFaults :
             PutMedia(idp, item, fault)
        \/ \E idp \in IdParams(db), fault \in DeleteFaults : DeleteMedia(idp, fault)
        \/ \E items \in FewBatches, fault \in BeginFaults : BulkStart(items, fault)
  \/ \E fault \in ItemFaults : BulkItem(fault)
  \/ \E mode \in {"ok", "busy", "auto"} : BulkCommit(mode)
  \/ BulkRollback

Spec == Init /\ [][Next]_vars

\* bulk requests only, with the batches at the limit of 200 items; BEGIN and
\* COMMIT may fail in every batch, a statement of an item in the short ones
NextBulk ==
  \/ /\ nreq < MaxBulkRequests
     /\ \E items \in ShortBatches \cup LongBatches, fault \in BeginFaults :
          BulkStart(items, fault)
  \/ \E fault \in ItemFaults :
       /\ fault = "" \/ Len(req.items.l) <= MaxBatch
       /\ BulkItem(fault)
  \/ \E mode \in {"ok", "busy", "auto"} : BulkCommit(mode)
  \/ BulkRollback

SpecBulk == Init /\ [][NextBulk]_vars

\* the tag normalizer alone, over every input of the bounded space
Strings(n) == SeqsUpTo(Alphabet, n)
TagInputSpace ==
  {Undef, Null, Num}
    \cup {Str(s) : s \in Strings(MaxTagLen)}
    \cup {List(l) : l \in SeqsUpTo({Str(s) : s \in Strings(MaxElemLen)}, MaxListLen)}

InitTags ==
  /\ db = EmptyDb
  /\ txn = NoTxn
  /\ bulk = IdleBulk
  /\ req = Request("none", NoId, NoItem, Undef)
  /\ resp = Response("none", 0, 0, NoMessage)
  /\ pre = EmptyDb
  /\ nreq = 0
  /\ nfault = 0
  /\ tagIn \in TagInputSpace
  /\ tagOut = NoTagOut
  /\ proc = [p \in Procs |-> IdleProc]
  /\ life = Serving

ParseTags ==
  /\ ~tagOut.done
  /\ tagOut' = [tagOut EXCEPT !.done = TRUE, !.err = parseTagsInput(tagIn).err,
                              !.val = parseTagsInput(tagIn).val]
  /\ UNCHANGED <<db, txn, bulk, req, resp, pre, nreq, nfault, tagIn, proc, life>>

\* the array a call returned, handed to parseTagsInput again
AsList(names) == List([k \in 1..Len(names) |-> Str(names[k])])

ParseAgain ==
  /\ tagOut.done /\ tagOut.err = ""
  /\ ~tagOut.again
  /\ tagOut' = [tagOut EXCEPT !.again = TRUE,
                              !.err2 = parseTagsInput(AsList(tagOut.val)).err,
                              !.val2 = parseTagsInput(AsList(tagOut.val)).val]
  /\ UNCHANGED <<db, txn, bulk, req, resp, pre, nreq, nfault, tagIn, proc, life>>

NextTags == ParseTags \/ ParseAgain

SpecTags == InitTags /\ [][NextTags]_vars

\* records and years of the year query: a start in 2023, in 2024, and one
\* whose month is 13; no end, an end in 2025, and the empty text as end
LateStart == Str(Date(<<"2", "0", "2", "3">>, <<"1", "2">>, <<"3", "1">>))
Month13 == Str(Date(<<"2", "0", "2", "4">>, <<"1", "3">>, <<"0", "1">>))
QueryItems ==
  {Item(Txt("T"), Txt("book"), start, end, Undef) :
     start \in {LateStart, GoodStart, Month13}, end \in {Undef, GoodEnd, Str(<<>>)}}
    \cup {Item(Txt("T"), Txt("book"), GoodStart, Undef, tags) :
            tags \in {Str(<<"b", ",", "a">>), Str(<<"a">>)}}
Years ==
  {<<"2", "0", "2", "3">>, <<"2", "0", "2", "4">>, <<"2", "0", "2", "5">>,
   <<"2", "0", "2", "6">>}

\* creates and year queries, one after another
NextQuery ==
  /\ nreq < MaxQueryRequests
  /\ \/ \E item \in QueryItems : PostMedia(item, "")
     \/ \E year \in Years, fault \in QueryFaults : GetMedia(year, fault)

SpecQuery == Init /\ [][NextQuery]_vars

\* bodies of create and update: every optional field given, none given, the
\* empty text as end_date, and the bodies that fail a check
FullItem ==
  [Item(Txt("T"), Txt("movie"), GoodStart, GoodEnd, Str(<<"a">>)) EXCEPT
     !.notes = Str(<<"b">>), !.discontinued = True]
BareItem == Item(Txt("U"), Txt("book"), LateStart, Undef, Undef)
EmptyEndItem == Item(Txt("T"), Txt("book"), GoodStart, Str(<<>>), Undef)
FieldItems == {FullItem, BareItem, EmptyEndItem} \cup InvalidItems

\* creates and updates, one after another, no storage failure
NextFields ==
  /\ nreq < MaxFieldRequests
  /\ \/ \E item \in FieldItems : PostMedia(item, "")
     \/ \E idp \in IdParams(db), item \in FieldItems : PutMedia(idp, item, "")

SpecFields == Init /\ [][NextFields]_vars

\* the id texts of a delete path: an optional minus, a run of digits, and
\* nothing, a letter, a decimal part or a hexadecimal part behind it
DigitRuns == SeqsUpTo({"0", "1"}, MaxIdDigits)
PathTails == {<<>>, <<"x">>, <<".", "1">>, <<"x", "1">>}
Paths ==
  {sign \o run \o tail :
     sign \in {<<>>, <<"-">>}, run \in DigitRuns, tail \in PathTails} \ {<<>>}
IdItems == {ValidItem(Undef), ValidItem(Str(<<"a">>))}

\* creates and deletes, one after another, with every id text
NextIds ==
  /\ nreq < MaxIdRequests
  /\ \/ \E item \in IdItems : PostMedia(item, "")
     \/ \E path \in Paths, fault \in DeleteFaults : DeleteMedia(parseInt(path), fault)

SpecIds == Init /\ [][NextIds]_vars

\* creates and updates whose storage calls interleave
RaceItems == {ValidItem(Str(<<"a">>)), ValidItem(Str(<<"b", ",", "a">>))}
RaceIds == {parseInt(<<"1">>)}

NextRace ==
  \E p \in Procs :
    \/ /\ nreq < MaxRaceRequests
       /\ \/ \E item \in RaceItems : RaceStart(p, "create", NoId, item)
          \/ \E idp \in RaceIds, item \in RaceItems : RaceStart(p, "update", idp, item)
    \/ RaceInsertMedia(p)
    \/ RaceUpdateMedia(p)
    \/ RaceDeleteLinks(p)
    \/ RaceSelectTag(p)
    \/ RaceInsertTag(p)
    \/ RaceInsertLink(p)

SpecRace == Init /\ [][NextRace]_vars

\* single creates and bulk requests that overlap on the shared handle
SharedItems == {ValidItem(Undef), ValidItem(Str(<<"a">>))}
SharedBatchItems ==
  {ValidItem(Undef), Item(Txt("T"), Txt("podcast"), GoodStart, Undef, Undef),
   NullItem}
SharedBatches ==
  {Undef} \cup {List(l) : l \in SeqsUpTo(SharedBatchItems, MaxBatch)}

NextShared ==
  \E p \in Procs :
    \/ /\ nreq < MaxSharedRequests
       /\ \/ \E item \in SharedItems : RaceStart(p, "create", NoId, item)
          \/ \E items \in SharedBatches : RaceBulkStart(p, items)
    \/ RaceInsertMedia(p)
    \/ RaceDeleteLinks(p)
    \/ RaceSelectTag(p)
    \/ RaceInsertTag(p)
    \/ RaceInsertLink(p)
    \/ RaceBulkItem(p)
    \/ RaceBulkCommit(p)
    \/ RaceBulkRollback(p)

SpecShared == Init /\ [][NextShared]_vars

\* creates, and calls of setMediaTags with arrays of names that hold a name
\* twice, in two casings, padded or blank
CallNameLists ==
  { <<>>, << <<"a">> >>, << <<"A">>, <<"a">> >>, << <<" ", "b">> >>,
    << <<" ">>, <<" ", "b">> >>, << <<"a">>, <<" ", "b">> >> }

NextCalls ==
  /\ nreq < MaxCalls
  /\ \/ \E item \in SharedItems : PostMedia(item, "")
     \/ \E mediaId \in 1..(db.seq_media + 1), tagNames \in CallNameLists,
           fault \in {""} \cup TagFaults :
          CallSetMediaTags(mediaId, tagNames, fault)

SpecCalls == Init /\ [][NextCalls]_vars

\* a create that runs alone, then updates of the record that overlap
PairItems == {ValidItem(Str(<<"a">>)), ValidItem(Str(<<"b">>))}

NextPair ==
  \/ /\ nreq < MaxPairRequests
     /\ \A p \in Procs : proc[p].pc \in {"idle", "done"}
     /\ PostMedia(ValidItem(Undef), "")
  \/ \E p \in Procs :
       \/ /\ nreq < MaxPairRequests
          /\ \E idp \in RaceIds, item \in PairItems : RaceStart(p, "update", idp, item)
       \/ RaceUpdateMedia(p)
       \/ RaceDeleteLinks(p)
       \/ RaceSelectTag(p)
       \/ RaceInsertTag(p)
       \/ RaceInsertLink(p)

SpecPair == Init /\ [][NextPair]_vars


\* the process from its start to its exit: initDb on one of the database
\* files, the server, creates and updates served while it listens, SIGTERMs
InitLife ==
  /\ db \in DatabaseFiles
  /\ pre = db
  /\ txn = NoTxn
  /\ bulk = IdleBulk
  /\ req = Request("none", NoId, NoItem, Undef)
  /\ resp = Response("none", 0, 0, NoMessage)
  /\ nreq = 0
  /\ nfault = 0
  /\ tagIn = Undef
  /\ tagOut = NoTagOut
  /\ proc = [p \in Procs |-> IdleProc]
  /\ life = NotStarted

NextLife ==
  \/ InitDb
  \/ StartServer
  \/ Sigterm
  \/ EmitClose
  \/ CloseCallback
  \/ Exit
  \/ \E p \in Procs :
       \/ /\ life.server = "listening"
          /\ nreq < MaxLifeRequests
          /\ \/ \E item \in RaceItems : RaceStart(p, "create", NoId, item)
             \/ \E idp \in RaceIds, item \in RaceItems : RaceStart(p, "update", idp, item)
       \/ /\ ~life.exited
          /\ \/ RaceInsertMedia(p)
             \/ RaceUpdateMedia(p)
             \/ RaceDeleteLinks(p)
             \/ RaceSelectTag(p)
             \/ RaceInsertTag(p)
             \/ RaceInsertLink(p)

SpecLife == InitLife /\ [][NextLife]_vars

\* ------------------------------------------------------------------ claims
MediaIds(d) == {r.id : r \in Rows(d.media)}
NewMediaIds == MediaIds(db) \ MediaIds(pre)
NewTagNames == {t.name : t \in Rows(db.tags)} \ {t.name : t \in Rows(pre.tags)}
NewLinks == Rows(db.media_tags) \ Rows(pre.media_tags)
BatchLen == Len(req.items.l)

\* the bulk request in req has been answered
BulkAnswered == req.op = "bulk" /\ resp.op = "bulk" /\ resp.status # 0 /\ bulk.pc = "idle"
\* ... after its COMMIT succeeded
BulkCommitted == BulkAnswered /\ bulk.commits = 1 /\ bulk.cause = ""

SuccessIds == {resp.results.success[k].id : k \in 1..Len(resp.results.success)}
SuccessIndexes == {resp.results.success[k].index : k \in 1..Len(resp.results.success)}

\* the names item k of the batch asks for
ItemTagNames(k) ==
  LET p == parseTagsInput(TagsOf(req.items.l[k]))
  IN {p.val[j] : j \in 1..Len(p.val)}

\* C1: after a committed bulk request the record rows it added are exactly the
\* rows whose ids are in results.success; a failed item leaves no record row,
\* no tag row and no association row behind.
C1_FailedItemsLeaveNothing ==
  BulkCommitted =>
    /\ NewMediaIds = SuccessIds
    /\ \A mt \in NewLinks : mt.media_id \in SuccessIds
    /\ NewTagNames \subseteq
         UNION {ItemTagNames(i + 1) : i \in SuccessIndexes}

\* an item that is no object, or fails one of the three checks
FailsValidation(item) == item.k # "obj" \/ validationError(item) # ""

\* C2: whatever the payload of an item of an accepted batch (null included), a
\* validation failure adds one failed entry with the item's zero-based index
\* and a message, the other items are still processed, and the request does
\* not end as a whole-batch error because of an item's content.
C2_EveryInvalidItemIsReported ==
  (BulkAnswered /\ itemsError(req.items) = "" /\ bulk.cause \notin {"begin", "commit"}) =>
    /\ resp.status \in {201, 207}
    /\ Len(resp.results.success) + Len(resp.results.failed) = BatchLen
    /\ \A k \in 1..BatchLen :
         FailsValidation(req.items.l[k]) =>
           Cardinality({j \in 1..Len(resp.results.failed) :
                          /\ resp.results.failed[j].index = k - 1
                          /\ resp.results.failed[j].error.text # ""}) = 1

\* C3: an accepted batch of n items that ends without a fatal error reports
\* every index 0..n-1 in exactly one entry of success or failed, and
\* total = n = |success| + |failed|, with 1 <= n <= 200.
C3_IndexesPartition ==
  (BulkAnswered /\ resp.status \in {201, 207}) =>
    /\ BatchLen >= 1 /\ BatchLen <= 200
    /\ resp.results.total = BatchLen
    /\ Len(resp.results.success) + Len(resp.results.failed) = BatchLen
    /\ \A i \in 0..(BatchLen - 1) :
         Cardinality({k \in 1..Len(resp.results.success) :
                        resp.results.success[k].index = i})
           + Cardinality({k \in 1..Len(resp.results.failed) :
                            resp.results.failed[k].index = i}) = 1

\* a batch that reported successes and failures, one of them a validation failure
C3_Witness ==
  /\ BulkAnswered /\ resp.status = 207
  /\ Len(resp.results.success) >= 1
  /\ \E k \in 1..Len(resp.results.failed) :
       resp.results.failed[k].error.text = "Invalid media type: "

\* C4: a committed bulk request answers 201 if and only if results.failed is
\* empty and 207 in every other case, the case of no success at all included.
C4_StatusFollowsFailed ==
  BulkCommitted =>
    /\ resp.hasResults
    /\ resp.status = 201 <=> Len(resp.results.failed) = 0
    /\ resp.status = 207 <=> Len(resp.results.failed) > 0

\* a committed batch in which every item failed
C4_Witness ==
  /\ BulkCommitted
  /\ resp.status = 207
  /\ Len(resp.results.success) = 0
  /\ Len(resp.results.failed) = BatchLen

\* C5: when the batch fails at transaction level (COMMIT fails), the request
\* rolls back, the three tables are as they were before the request, and the
\* answer is one 500 that carries none of the collected results.
C5_FatalRestoresTables ==
  /\ (BulkAnswered /\ bulk.cause = "commit") => (resp.status = 500 /\ bulk.rollbacks = 1)
  /\ (BulkAnswered /\ resp.status = 500) =>
       /\ db = pre
       /\ ~txn.active
       /\ ~resp.hasResults
       /\ resp.results = NoResults

\* a failed COMMIT after items had been inserted and reported
C5_Witness ==
  /\ BulkAnswered /\ resp.status = 500 /\ bulk.cause = "commit"
  /\ Len(bulk.results.success) >= 1
  /\ Len(bulk.results.failed) >= 1

\* C6: a bulk request whose items field is no array, is an empty array or has
\* more than 200 elements is answered 400 before any storage call: no
\* transaction is begun and the three tables are unchanged.
C6_MalformedItemsRejected ==
  (req.op = "bulk" /\ (req.items.k # "list" \/ Len(req.items.l) = 0 \/ Len(req.items.l) > 200)) =>
    /\ resp.op = "bulk" /\ resp.status = 400
    /\ bulk = IdleBulk
    /\ ~txn.active
    /\ db = pre

\* 201 items sent to a database that holds records
C6_Witness ==
  /\ req.op = "bulk" /\ resp.status = 400
  /\ Len(req.items.l) = 201
  /\ Len(db.media) >= 1

\* C7: an accepted bulk request issues one BEGIN, processes every item, and
\* issues one COMMIT after the last item, never one per item; a batch of
\* exactly 200 valid items gives 200 success entries, one commit and 201.
\* (A request whose BEGIN is rejected by the storage engine is left out.)
C7_OneBeginAllItemsOneCommit ==
  /\ bulk.begins <= 1 /\ bulk.commits <= 1
  /\ bulk.pc = "loop" => (bulk.begins = 1 /\ bulk.commits = 0)
  /\ bulk.commits = 1 => bulk.i = BatchLen
  /\ (BulkAnswered /\ itemsError(req.items) = "" /\ bulk.cause # "begin") =>
       /\ bulk.begins = 1
       /\ bulk.i = BatchLen
       /\ bulk.commits = 1
  /\ (BulkAnswered /\ BatchLen = 200 /\ bulk.cause = "") =>
       /\ resp.status = 201
       /\ Len(resp.results.success) = 200
       /\ bulk.commits = 1

\* the part of C7 that the handler keeps on every path: BEGIN once before the
\* loop, COMMIT at most once and only after the last item, both exactly once
\* behind every 201 and 207, and 200 valid items answered 201
CommitOrder ==
  /\ bulk.begins <= 1 /\ bulk.commits <= 1
  /\ bulk.pc = "loop" => (bulk.begins = 1 /\ bulk.commits = 0 /\ txn.active)
  /\ bulk.commits = 1 =>
       /\ bulk.begins = 1
       /\ bulk.i = BatchLen
       /\ Len(bulk.results.success) + Len(bulk.results.failed) = BatchLen
  /\ (BulkAnswered /\ resp.status \in {201, 207}) =>
       (bulk.begins = 1 /\ bulk.commits = 1 /\ bulk.rollbacks = 0)
  /\ (BulkAnswered /\ BatchLen = 200 /\ bulk.cause = "") =>
       /\ resp.status = 201
       /\ Len(resp.results.success) = 200
       /\ Len(resp.results.failed) = 0
       /\ bulk.commits = 1
       /\ Cardinality(NewMediaIds) = 200

\* the batch of exactly 200 valid items, answered
FullBatchAnswered ==
  /\ BulkAnswered /\ BatchLen = 200
  /\ resp.status = 201
  /\ Len(db.media) = Len(pre.media) + 200

\* the set of names the normalizer gives for a tag input
NormalizedSet(tagsInput) ==
  LET p == parseTagsInput(tagsInput)
  IN {p.val[j] : j \in 1..Len(p.val)}

\* the create or update in req has succeeded
WroteRecord == resp.op \in {"create", "update"} /\ resp.status \in {200, 201}

\* C8: with the requests run one after another, after a create or update of
\* record r with tag input T the names associated with r are exactly the
\* normalized set of T; nothing of an earlier tag set remains.
C8_TagsAreExactlyTheInput ==
  WroteRecord =>
    /\ TagNamesOf(db, resp.id) = NormalizedSet(TagsOf(req.item))
    /\ \A mt \in Rows(db.media_tags) :
         mt.media_id = resp.id =>
           \E t \in Rows(db.tags) :
             t.id = mt.tag_id /\ t.name \in NormalizedSet(TagsOf(req.item))

\* an update that replaced a non-empty tag set by a disjoint non-empty one
C8_Witness ==
  /\ resp.op = "update" /\ resp.status = 200
  /\ TagNamesOf(pre, resp.id) # {}
  /\ TagNamesOf(db, resp.id) # {}
  /\ TagNamesOf(pre, resp.id) \cap TagNamesOf(db, resp.id) = {}

\* C9: in every state reached by sequential create, update, delete and bulk
\* requests there is at most one tag row per name and at most one association
\* row per (record, tag) pair; records with a common tag share its one row.
C9_TagAndLinkRowsUnique ==
  /\ \A j, k \in 1..Len(db.tags) :
       db.tags[j].name = db.tags[k].name => j = k
  /\ \A j, k \in 1..Len(db.tags) :
       db.tags[j].id = db.tags[k].id => j = k
  /\ \A j, k \in 1..Len(db.media_tags) :
       db.media_tags[j] = db.media_tags[k] => j = k

\* two records that carry the same tag name: one tag row, a row of
\* media_tags for each
C9_Witness ==
  \E r1, r2 \in MediaIds(db) :
    /\ r1 # r2
    /\ \E t \in Rows(db.tags) :
         /\ [media_id |-> r1, tag_id |-> t.id] \in Rows(db.media_tags)
         /\ [media_id |-> r2, tag_id |-> t.id] \in Rows(db.media_tags)
         /\ Cardinality({k \in 1..Len(db.tags) : db.tags[k].name = t.name}) = 1

\* a name as the store wants it: non-empty, trimmed, lowercase
IsNormalName(n) ==
  /\ Len(n) > 0
  /\ ~IsSpace(n[1])
  /\ ~IsSpace(n[Len(n)])
  /\ \A k \in 1..Len(n) : n[k] # "A"

EmptyInputs == {Undef, Str(<<>>), List(<<>>)}

\* C10 as stated: for every tag input the normalizer returns pairwise
\* distinct, non-empty, trimmed, lowercase names; empty and absent input give
\* the empty sequence without error.
C10_DistinctNormalNames ==
  tagOut.done =>
    /\ tagOut.err = ""
    /\ \A k \in 1..Len(tagOut.val) : IsNormalName(tagOut.val[k])
    /\ \A j, k \in 1..Len(tagOut.val) : tagOut.val[j] = tagOut.val[k] => j = k
    /\ tagIn \in EmptyInputs => tagOut.val = <<>>

\* C10 as amended: the names returned are non-empty, trimmed and lowercase (a
\* name given twice stays twice); empty and absent input give the empty
\* sequence without error.
C10_NormalNames ==
  tagOut.done =>
    /\ tagOut.err = ""
    /\ \A k \in 1..Len(tagOut.val) : IsNormalName(tagOut.val[k])
    /\ tagIn \in EmptyInputs => tagOut.val = <<>>

\* an input with padding and two casings of one name, normalized
C10_Witness ==
  /\ tagOut.done
  /\ tagIn = Str(<<" ", "A", ",", "a">>)
  /\ tagOut.val = << <<"a">>, <<"a">> >>

NameSet(names) == {names[k] : k \in 1..Len(names)}

\* C11: tag normalization is idempotent: parseTagsInput applied to the array
\* that parseTagsInput returned gives the same set of names, without error.
C11_NormalizationIdempotent ==
  tagOut.again =>
    /\ tagOut.err2 = ""
    /\ NameSet(tagOut.val2) = NameSet(tagOut.val)

\* a text with an uppercase name and padding, normalized twice
C11_Witness ==
  /\ tagOut.again
  /\ tagIn = Str(<<"A", " ", ",", "b">>)
  /\ NameSet(tagOut.val2) = {<<"a">>, <<"b">>}

\* C12: in every reachable state every tag row's name is non-empty, has no
\* leading or trailing whitespace and no uppercase character, whatever the
\* casing and spacing of the tags submitted through create, update or bulk.
C12_TagNamesNormal == \A t \in Rows(db.tags) : IsNormalName(t.name)

\* tags submitted in uppercase and with padding, stored through a single
\* request and through a batch
C12_Witness ==
  /\ req.op = "bulk" /\ resp.status = 201
  /\ \E k \in 1..BatchLen : req.items.l[k].tags = Str(<<"A", ",", " ", "b">>)
  /\ {<<"a">>, <<"b">>} \subseteq {t.name : t \in Rows(db.tags)}
  /\ \E t \in Rows(pre.tags) : t.name = <<"b">>

\* the names handler p attaches
ProcNames(p) == NormalizedSet(TagsOf(proc[p].item))
\* handler p has answered a request that reached the tag step
TaggedDone(p) == proc[p].pc = "done" /\ proc[p].status \notin {400, 404}

\* C13: two requests that interleave at storage-call granularity and both
\* attach a tag name that did not exist when either started both succeed, and
\* one tag row with that name exists afterwards.
C13_RaceOnNewTagTolerated ==
  \A n \in ProcNames(1) \cap ProcNames(2) :
    (TaggedDone(1) /\ TaggedDone(2) /\ n \notin proc[1].seen \cup proc[2].seen) =>
      /\ \A p \in Procs : proc[p].status \in {200, 201}
      /\ Cardinality({k \in 1..Len(db.tags) : db.tags[k].name = n}) = 1

\* the year of a date text, read from its first four digits
YearNum(text) == numberOf(SubSeq(text, 1, 4), 10)
HasEnd(r) == r.end_date.k = "str" /\ Len(r.end_date.s) = 10
\* the four cases of the year query
InYear(r, Y) ==
  \/ YearNum(r.start_date) = Y
  \/ (HasEnd(r) /\ YearNum(r.end_date.s) = Y)
  \/ (HasEnd(r) /\ YearNum(r.start_date) < Y /\ Y < YearNum(r.end_date.s))
  \/ (~HasEnd(r) /\ YearNum(r.start_date) = Y)

QueryAnswered == req.op = "query" /\ resp.op = "query" /\ resp.status = 200
EntryIds == {resp.entries[k].id : k \in 1..Len(resp.entries)}

\* C14: for every year Y and every stored record R, the year query returns R
\* if and only if R starts in Y, or ends in Y, or has an end and starts before
\* and ends after Y, or has no end and starts in Y.
C14_YearQueryIsTheFourCases ==
  QueryAnswered =>
    \A r \in Rows(db.media) : r.id \in EntryIds <=> InYear(r, YearNum(req.year))

\* the same over the records whose dates SQLite can parse: this part holds
YearQueryOnSqlDates ==
  QueryAnswered =>
    \A r \in Rows(db.media) :
      (IsSqlDate(Str(r.start_date)) /\ (HasEnd(r) => IsSqlDate(r.end_date))) =>
        (r.id \in EntryIds <=> InYear(r, YearNum(req.year)))

\* a record returned for a year strictly inside its range, and one left out
SpanReturned ==
  /\ QueryAnswered
  /\ \E r \in Rows(db.media) :
       /\ r.id \in EntryIds
       /\ HasEnd(r)
       /\ YearNum(r.start_date) < YearNum(req.year)
       /\ YearNum(req.year) < YearNum(r.end_date.s)
  /\ \E r \in Rows(db.media) : r.id \notin EntryIds

\* a date text as a number: year, month, day
DateNum(text) ==
  numberOf(SubSeq(text, 1, 4) \o SubSeq(text, 6, 7) \o SubSeq(text, 9, 10), 10)

\* C15: the sequence the year query returns is in ascending order of
\* start_date, for every year and every stored set of records.
C15_SortedByStartDate ==
  QueryAnswered =>
    \A j, k \in 1..Len(resp.entries) :
      j < k => DateNum(resp.entries[j].start_date) <= DateNum(resp.entries[k].start_date)

\* two records returned in the reverse of the order they were created in
C15_Witness ==
  /\ QueryAnswered
  /\ \E j, k \in 1..Len(resp.entries) :
       /\ j < k
       /\ resp.entries[j].id > resp.entries[k].id
       /\ DateNum(resp.entries[j].start_date) < DateNum(resp.entries[k].start_date)

RECURSIVE CommaSpaced(_)
CommaSpaced(names) ==
  IF names = <<>> THEN <<>>
  ELSE IF Len(names) = 1 THEN names[1]
  ELSE CommaSpaced(SubSeq(names, 1, Len(names) - 1)) \o <<",", " ">> \o names[Len(names)]

\* C16: every record the year query returns carries a tags field made of the
\* names now associated with it, each once, in alphabetical order, joined by
\* comma and space; a record without associations carries the empty text.
C16_TagsFieldIsSortedJoin ==
  QueryAnswered =>
    \A k \in 1..Len(resp.entries) :
      LET S == TagNamesOf(db, resp.entries[k].id)
      IN \E ns \in [1..Cardinality(S) -> S] :
           /\ \A i, j \in 1..Len(ns) : i < j => TextLess(ns[i], ns[j])
           /\ resp.entries[k].tags = CommaSpaced(ns)

\* a record whose two tags were created in the reverse of alphabetical order
C16_Witness ==
  /\ QueryAnswered
  /\ \E k \in 1..Len(resp.entries) : resp.entries[k].tags = <<"a", ",", " ", "b">>
  /\ TagIdByName(db, <<"b">>) < TagIdByName(db, <<"a">>)

\* C17: after a delete that answered 200 no association row refers to the
\* deleted record, and in every reachable state each association row refers
\* to an existing record and an existing tag.
C17_NoDanglingLinks ==
  /\ (resp.op = "delete" /\ resp.status = 200) =>
       \A mt \in Rows(db.media_tags) : mt.media_id # resp.id
  /\ \A mt \in Rows(db.media_tags) :
       /\ mt.media_id \in MediaIds(db)
       /\ \E t \in Rows(db.tags) : t.id = mt.tag_id

\* the request in req has been answered with a success
Succeeded == bulk.pc = "idle" /\ resp.status \in {200, 201, 207}

\* C18: no successfully completed create, update, delete or committed bulk
\* removes a tag row or changes the id of a tag name, also when no record is
\* associated with the tag any more.
C18_TagRowsStay ==
  Succeeded => \A t \in Rows(pre.tags) : t \in Rows(db.tags)

\* an update that left a tag without any association
C18_Witness ==
  /\ resp.op = "update" /\ resp.status = 200
  /\ \E t \in Rows(pre.tags) :
       /\ t \in Rows(db.tags)
       /\ \E mt \in Rows(pre.media_tags) : mt.tag_id = t.id
       /\ ~\E mt \in Rows(db.media_tags) : mt.tag_id = t.id

\* C19: a delete whose id matches no record, with no storage failure, answers
\* 404, not 500, and leaves the three tables unchanged.
C19_DeleteOfUnknownIdIs404 ==
  [][(/\ nreq' = nreq + 1
      /\ req'.op = "delete"
      /\ ~req'.idp.nan
      /\ req'.idp.n \notin MediaIds(db)
      /\ nfault' = nfault)
       => (resp'.status = 404 /\ db' = db)]_vars

\* a delete of an unassigned id on tables that hold a record with a tag
C19_Witness ==
  /\ req.op = "delete" /\ resp.status = 404
  /\ Len(db.media) >= 1 /\ Len(db.media_tags) >= 1
  /\ db = pre

\* the text of a positive integer: digits only, not all of them zero
IsPositiveInteger(s) ==
  /\ s # <<>>
  /\ \A k \in 1..Len(s) : s[k] \in Digit
  /\ \E k \in 1..Len(s) : s[k] # "0"

\* C20: a delete answers 400 and deletes nothing for every id text that is
\* not a positive integer: other text, zero, a negative number, a decimal, or
\* digits followed by other characters.
C20_BadIdIs400 ==
  (req.op = "delete" /\ ~IsPositiveInteger(req.idp.raw)) =>
    (resp.status = 400 /\ db = pre)

\* a delete whose id text is no positive integer and that removed a record
BadIdDeletes ==
  /\ req.op = "delete" /\ ~IsPositiveInteger(req.idp.raw)
  /\ resp.status = 200
  /\ Len(db.media) < Len(pre.media)

\* a required field the body lacks: absent, null or the empty text
LacksT(v) == v.k \in {"undef", "null"} \/ (v.k = "str" /\ v.s = "")
LacksS(v) == v.k \in {"undef", "null"} \/ (v.k = "str" /\ v.s = <<>>)

\* the body carries an end_date: the field is there and is not null
HasEndDate(item) == item.end_date.k \notin {"undef", "null"}

\* a body that must be refused: a required field is lacking, the media type
\* is outside the enumeration, or a date that is there does not match
InvalidBody(item) ==
  \/ LacksT(item.title) \/ LacksT(item.media_type) \/ LacksS(item.start_date)
  \/ ~(item.media_type.k = "str" /\ item.media_type.s \in validTypes)
  \/ ~dateRegexTest(item.start_date)
  \/ (HasEndDate(item) /\ ~dateRegexTest(item.end_date))

\* C21: a single create or update whose body lacks title, media_type or
\* start_date, has a media_type outside the enumeration, or has a start_date
\* or a present end_date not matching YYYY-MM-DD answers 400 and leaves the
\* record, tag and association tables unchanged.
C21_InvalidBodyIs400 ==
  (req.op \in {"create", "update"} /\ resp.op = req.op /\ InvalidBody(req.item))
    => (resp.status = 400 /\ db = pre)

\* a body the handler's own checks refuse changes no table
RefusedBodyChangesNothing ==
  (req.op \in {"create", "update"} /\ resp.op = req.op
     /\ validationError(req.item) # "")
    => (resp.status = 400 /\ db = pre)

\* a create whose end_date is the empty text has been acknowledged
EmptyEndDateAccepted ==
  /\ req.op = "create" /\ resp.status = 201
  /\ req.item.end_date = Str(<<>>)
  /\ Len(db.media) = Len(pre.media) + 1

\* C22: an update with a valid body whose id matches no record, with no
\* storage failure, answers 404 and changes nothing: no record is modified,
\* no tag row is created, no association row is inserted or deleted.
C22_UpdateOfUnknownIdIs404 ==
  [][(/\ nreq' = nreq + 1
      /\ req'.op = "update"
      /\ ~req'.idp.nan
      /\ validationError(req'.item) = ""
      /\ req'.idp.n \notin MediaIds(db)
      /\ nfault' = nfault)
       => (resp'.status = 404 /\ db' = db)]_vars

\* an update of an unassigned id that carried a tag name, on tables that
\* hold a record
C22_Witness ==
  /\ req.op = "update" /\ resp.status = 404
  /\ NormalizedSet(TagsOf(req.item)) # {}
  /\ Len(db.media) >= 1
  /\ db = pre

\* the media type check is the one that refuses the body
TypeRefused(item) ==
  /\ TruthyT(item.title) /\ TruthyT(item.media_type) /\ TruthyS(item.start_date)
  /\ ~(item.media_type.k = "str" /\ item.media_type.s \in validTypes)

\* C23: on every entry point that validates media_type (single create,
\* update, bulk item) a value outside the enumeration is rejected with an
\* error message that names the offending value, and no record with that
\* media_type is ever stored.
C23_TypeErrorNamesTheValue ==
  /\ (req.op \in {"create", "update"} /\ resp.op = req.op
        /\ ~req.idp.nan /\ TypeRefused(req.item))
       => (resp.status = 400 /\ resp.error.value = req.item.media_type.s)
  /\ (req.op = "bulk" /\ req.items.k = "list")
       => \A j \in 1..Len(bulk.results.failed) :
            LET f == bulk.results.failed[j]
                item == req.items.l[f.index + 1]
            IN (item.k = "obj" /\ TypeRefused(item))
                 => f.error.value = item.media_type.s
  /\ \A r \in Rows(db.media) : r.media_type \in validTypes

\* no stored record has a media type outside the enumeration
StoredTypesAreValid == \A r \in Rows(db.media) : r.media_type \in validTypes

\* a single create refused for its media type, its message without the value
TypeErrorWithoutValue ==
  /\ req.op = "create" /\ resp.status = 400
  /\ TypeRefused(req.item)
  /\ resp.error.value # req.item.media_type.s

\* C24: in every reachable state each stored record's start_date matches
\* YYYY-MM-DD and its end_date is null or matches YYYY-MM-DD; a create or
\* update without end_date stores null.
C24_StoredDatesAreStrict ==
  /\ \A r \in Rows(db.media) :
       /\ dateRegexTest(Str(r.start_date))
       /\ r.end_date = Null \/ dateRegexTest(r.end_date)
  /\ (WroteRecord /\ req.item.end_date.k = "undef")
       => \A r \in Rows(db.media) : r.id = resp.id => r.end_date = Null

\* every stored start_date matches, and an omitted end_date is stored as null
StartDatesAreStrict ==
  /\ \A r \in Rows(db.media) : dateRegexTest(Str(r.start_date))
  /\ (WroteRecord /\ req.item.end_date.k = "undef")
       => \A r \in Rows(db.media) : r.id = resp.id => r.end_date = Null

\* a stored record whose end_date is the empty text
EmptyEndDateStored == \E r \in Rows(db.media) : r.end_date = Str(<<>>)

\* the flag a body submits; false when the field is omitted
FlagOf(item) == IF item.discontinued.k = "true" THEN 1 ELSE 0

\* the entries a read returns for record id
ReadBack(d, id) ==
  {entryOf(d, d.media[k]) : k \in {j \in 1..Len(d.media) : d.media[j].id = id}}

RaisedEntries ==
  {j \in 1..Len(bulk.results.failed) :
     LET item == req.items.l[bulk.results.failed[j].index + 1]
     IN item.k = "obj" /\ validationError(item) = ""}

\* C26: when the record insert or the tag step of batch item i raises an
\* error, the error is caught for that item only: a failed entry with index i
\* is recorded, the items after i are still processed, the transaction is
\* still committed, and the request does not end as a fatal error.
\* (A request whose COMMIT is rejected by the storage engine is left out.)
C26_ItemErrorIsCaught ==
  (BulkAnswered /\ RaisedEntries # {} /\ bulk.cause # "commit") =>
    /\ bulk.i = BatchLen
    /\ bulk.commits = 1
    /\ resp.status \in {201, 207}
    /\ \A j \in RaisedEntries :
         \E k \in 1..Len(resp.results.failed) :
           resp.results.failed[k] = bulk.results.failed[j]

\* the same for the batches whose elements are all objects
CaughtWhenItemsAreObjects ==
  (/\ BulkAnswered /\ RaisedEntries # {} /\ bulk.cause # "commit"
   /\ \A k \in 1..BatchLen : req.items.l[k].k = "obj") =>
    /\ bulk.i = BatchLen
    /\ bulk.commits = 1
    /\ resp.status \in {201, 207}
    /\ \A j \in RaisedEntries :
         \E k \in 1..Len(resp.results.failed) :
           resp.results.failed[k] = bulk.results.failed[j]

\* an item's error was caught and a later element ended the request as fatal
CaughtThenFatal ==
  /\ BulkAnswered /\ RaisedEntries # {}
  /\ resp.status = 500 /\ bulk.cause = "item"
  /\ bulk.commits = 0

\* C30: after a bulk request has answered (201, 207, 400 or 500) no
\* transaction opened by it is still open: a successful BEGIN is followed by
\* exactly one successful COMMIT or one ROLLBACK before the response, and
\* ROLLBACK is issued only when this request's BEGIN succeeded.
C30_NoTransactionLeftOpen ==
  /\ bulk.pc = "idle" => ~txn.active
  /\ bulk.pc # "idle" => bulk.rollbacks = 0
  /\ BulkAnswered =>
       /\ resp.status \in {201, 207, 400, 500}
       /\ resp.status = 400 => (bulk.begins = 0 /\ bulk.rollbacks = 0)
       /\ bulk.cause = "begin" => bulk.rollbacks = 0
       /\ (bulk.begins = 1 /\ bulk.cause # "begin") =>
            \/ bulk.cause = "" /\ bulk.commits = 1 /\ bulk.rollbacks = 0
            \/ bulk.cause # "" /\ bulk.rollbacks = 1
       /\ bulk.rollbacks <= 1
       /\ bulk.rollbacks = 1 => (bulk.begins = 1 /\ bulk.cause \in {"item", "commit"})

\* a request answered 500 after its open transaction, with an inserted
\* record in it, was rolled back
C30_Witness ==
  /\ BulkAnswered /\ resp.status = 500
  /\ bulk.cause = "item" /\ bulk.rollbacks = 1
  /\ Len(bulk.results.success) >= 1
  /\ ~txn.active

\* a request whose BEGIN was rejected, answered 500 without a ROLLBACK
BeginRefused ==
  /\ BulkAnswered /\ resp.status = 500
  /\ bulk.cause = "begin" /\ bulk.rollbacks = 0

\* handler p has acknowledged the create of a record
Acknowledged(p) ==
  proc[p].pc = "done" /\ proc[p].op = "create" /\ proc[p].status = 201

\* C27: when a single create interleaves with a bulk request on the shared
\* database handle, a write that was acknowledged to its caller (201) stays
\* in storage, also if the bulk request afterwards rolls back.
C27_AcknowledgedWriteStays ==
  \A p \in Procs : Acknowledged(p) => proc[p].id \in MediaIds(db)

\* a record acknowledged with 201 is gone after the bulk request of the
\* other handler answered 500
AcknowledgedWriteErased ==
  \E p, q \in Procs :
    /\ Acknowledged(p) /\ proc[p].id \notin MediaIds(db)
    /\ proc[q].pc = "done" /\ proc[q].op = "bulk" /\ proc[q].status = 500

\* handler p has answered a bulk request whose items passed the checks of the
\* request and are all objects
BulkDone(p) ==
  /\ proc[p].pc = "done" /\ proc[p].op = "bulk"
  /\ proc[p].items # <<>>
  /\ \A k \in 1..Len(proc[p].items) : proc[p].items[k].k = "obj"

\* the status of the request of handler p when it is served alone
AloneStatus(p) ==
  IF \A k \in 1..Len(proc[p].items) : validationError(proc[p].items[k]) = ""
  THEN 201 ELSE 207

\* C28: when two bulk requests overlap on the shared database handle each is
\* served as if it ran alone: both end with 201 or 207 according to their own
\* items, and neither fails because the other has a transaction open.
C28_OverlappingBulksBothServed ==
  \A p \in Procs : BulkDone(p) => proc[p].status = AloneStatus(p)

\* a bulk request answered 500 at its BEGIN while the transaction of the
\* other handler's bulk request is open
BeginRefusedByOpenTransaction ==
  \E p, q \in Procs :
    /\ BulkDone(p) /\ proc[p].status = 500 /\ proc[p].i = 0
    /\ proc[q].pc = "bloop" /\ txn.active

\* both handlers have answered 200 to an update of the same record
BothUpdated ==
  /\ \A p \in Procs :
       proc[p].pc = "done" /\ proc[p].op = "update" /\ proc[p].status = 200
  /\ proc[1].id = proc[2].id

\* C29: when two updates of the same record with tag sets A and B interleave
\* at storage-call granularity and both answer 200, the record's final tag set
\* is normalize(A) or normalize(B), never a mixture of both.
C29_NoMixedTagSet ==
  BothUpdated => TagNamesOf(db, proc[1].id) \in {ProcNames(1), ProcNames(2)}

\* both updates answered 200 and the record carries the names of both
MixedTagSet ==
  /\ BothUpdated
  /\ ProcNames(1) \cap ProcNames(2) = {}
  /\ ProcNames(1) # {} /\ ProcNames(2) # {}
  /\ TagNamesOf(db, proc[1].id) = ProcNames(1) \cup ProcNames(2)

\* C31: a single create that answers with an error (400 or 500) has added no
\* record row: when the tag step fails after the record insert, the inserted
\* record does not remain in storage.
C31_FailedCreateAddsNoRecord ==
  (req.op = "create" /\ resp.op = "create" /\ resp.status \in {400, 500})
    => db.media = pre.media

\* a create answered 400 has written nothing
RefusedCreateAddsNoRecord ==
  (req.op = "create" /\ resp.op = "create" /\ resp.status = 400) => db = pre

\* a create answered 500 for its tags, with no storage failure, whose record
\* row is in the table
RecordLeftByFailedCreate ==
  /\ req.op = "create" /\ resp.status = 500
  /\ nfault = 0
  /\ parseTagsInput(TagsOf(req.item)).err # ""
  /\ Len(db.media) = Len(pre.media) + 1

\* the call in req is a call of setMediaTags, and it has returned or thrown
TagsCalled == req.op = "setMediaTags" /\ resp.op = "setMediaTags"

\* the association rows of the records other than mediaId, in table order
LinksOfOthers(d, mediaId) ==
  LET Other(r) == r.media_id # mediaId
  IN SelectSeq(d.media_tags, Other)

\* C32: replacing the tags of record r (setMediaTags) inserts and deletes
\* association rows of r only: the association rows of every other record are
\* unchanged, and no record row is changed; also when the call throws.
C32_OnlyTheRecordsLinksChange ==
  TagsCalled =>
    /\ LinksOfOthers(db, resp.id) = LinksOfOthers(pre, resp.id)
    /\ db.media = pre.media
    /\ db.seq_media = pre.seq_media

\* a call that replaced the names of one record while another record has
\* association rows
C32_Witness ==
  /\ TagsCalled /\ resp.error.text = ""
  /\ TagNamesOf(pre, resp.id) # {}
  /\ TagNamesOf(db, resp.id) # {}
  /\ TagNamesOf(db, resp.id) # TagNamesOf(pre, resp.id)
  /\ LinksOfOthers(db, resp.id) # <<>>
  /\ Len(db.media) >= 2

\* the names of an array as setMediaTags relates them: trimmed, lowercase,
\* the blank ones skipped
RelatedNames(tagNames) ==
  {toLowerCase(trim(tagNames[k])) : k \in 1..Len(tagNames)} \ {<<>>}

\* an array that holds the same normalized name more than once
HasRepeatedName(tagNames) ==
  \E j, k \in 1..Len(tagNames) :
    /\ j # k
    /\ toLowerCase(trim(tagNames[j])) = toLowerCase(trim(tagNames[k]))
    /\ toLowerCase(trim(tagNames[j])) # <<>>

\* C33: when the names passed to one setMediaTags call contain the same
\* normalized name more than once, and the storage engine does not fail, the
\* call completes without error and leaves exactly one tag row and one
\* association row for that name.
C33_RepeatedNameCollapses ==
  (TagsCalled /\ req.fault = "" /\ HasRepeatedName(req.names)) =>
    /\ resp.error.text = ""
    /\ \A n \in RelatedNames(req.names) :
         /\ Cardinality({k \in 1..Len(db.tags) : db.tags[k].name = n}) = 1
         /\ Cardinality({k \in 1..Len(db.media_tags) :
              /\ db.media_tags[k].media_id = resp.id
              /\ db.media_tags[k].tag_id = TagIdByName(db, n)}) = 1

\* a call with a name in two casings, the tag row made by this call
C33_Witness ==
  /\ TagsCalled /\ req.names = <<<<"A">>, <<"a">>>>
  /\ resp.error.text = ""
  /\ resp.id \in MediaIds(db)
  /\ <<"a">> \notin TagNameSet(pre)
  /\ TagNamesOf(db, resp.id) = {<<"a">>}

\* the call in req runs the statement at which the storage engine fails
FaultReached ==
  \/ req.fault = "DELETE media_tags"
  \/ /\ req.fault \in {"SELECT tags", "INSERT media_tags"}
     /\ RelatedNames(req.names) # {}
  \/ /\ req.fault = "INSERT tags"
     /\ \E n \in RelatedNames(req.names) : n \notin TagNameSet(pre)

\* C34: in setMediaTags the only storage error that is swallowed is a
\* uniqueness conflict on the association insert; every other storage error
\* (from the delete, the tag lookup, the tag insert, or another failure of the
\* association insert) propagates to the caller.
C34_OnlyLinkConflictSwallowed ==
  TagsCalled =>
    /\ (req.fault # "" /\ FaultReached) => resp.error.text = "SQLITE_ERROR"
    /\ (req.fault = "" \/ ~FaultReached) => resp.error.text = ""

\* a call whose association insert was rejected for another reason than
\* uniqueness, after the tag row was written, and that threw
C34_Witness ==
  /\ TagsCalled /\ req.fault = "INSERT media_tags"
  /\ resp.error.text = "SQLITE_ERROR"
  /\ Len(db.tags) = Len(pre.tags) + 1
  /\ TagNamesOf(db, resp.id) = {}

\* C36: every record accepted by single create or bulk is returned by the
\* year query for the year written in the first four digits of its start_date.
C36_AcceptedRecordIsReturned ==
  QueryAnswered =>
    \A r \in Rows(db.media) :
      YearNum(r.start_date) = YearNum(req.year) => r.id \in EntryIds

\* the same for the records whose start_date SQLite can parse
SqlStartDateIsReturned ==
  QueryAnswered =>
    \A r \in Rows(db.media) :
      (IsSqlDate(Str(r.start_date)) /\ YearNum(r.start_date) = YearNum(req.year))
        => r.id \in EntryIds

\* a stored record that the query for the year of its start_date leaves out
AcceptedRecordLeftOut ==
  /\ QueryAnswered
  /\ \E r \in Rows(db.media) :
       /\ YearNum(r.start_date) = YearNum(req.year)
       /\ dateRegexTest(Str(r.start_date))
       /\ r.id \notin EntryIds

\* C35: over any sequence and interleaving of single creates, bulk requests
\* (committed or rolled back) and deletes, no two successful creations return
\* the same record id.
C35_ReturnedIdsAreNeverReused ==
  (Acknowledged(1) /\ Acknowledged(2)) => proc[1].id # proc[2].id

\* the id counter never decreases while no transaction is rolled back
IdCounterGrowsWithoutRollback ==
  [][(\A p \in Procs : proc[p].pc # "brollback") => db'.seq_media >= db.seq_media]_vars

\* two creates acknowledged with the same id; the row of the first is gone
SameIdReturnedTwice ==
  /\ Acknowledged(1) /\ Acknowledged(2)
  /\ proc[1].id = proc[2].id
  /\ Len(db.media) = 1

\* C37: on SIGTERM the database handle is closed only after the HTTP server
\* has finished closing, with no handler left in flight, it is closed at most
\* once however many signals arrive, and initDb opens a handle only when none
\* is set.
C37_HandleClosedOnceAfterServer ==
  /\ life.closes > 0 => (life.server = "closed" /\ \A p \in Procs : ~InFlight(p))
  /\ life.closes <= 1
  /\ life.opens <= 1

\* C37, the part that holds: db.close() is called only once the server is
\* closed and no handler is in flight, and the file is opened at most once
\* however often initDb is called.
HandleClosedAfterServer ==
  /\ life.closes > 0 => (life.server = "closed" /\ \A p \in Procs : ~InFlight(p))
  /\ life.opens <= 1
  /\ life.inits > 0 => life.opens = 1

\* C37, the case that fails: two signals, db.close() called twice.
HandleClosedTwice == life.signals = 2 /\ life.closes = 2

\* C37, the second call of initDb finds the handle set and opens nothing.
InitDbCalledTwice == life.inits = 2 /\ life.opens = 1

\* the values of the columns the handlers write, for the columns in cols
Kept(r, q, cols) ==
  /\ r.title = q.title
  /\ r.media_type = q.media_type
  /\ r.start_date = q.start_date
  /\ r.end_date = q.end_date
  /\ r.notes = q.notes
  /\ "discontinued" \in cols => r.discontinued = q.discontinued
RowsKept(old, new, cols) ==
  \A r \in Rows(old.media) : \E q \in Rows(new.media) : q.id = r.id /\ Kept(r, q, cols)
\* initDb has rebuilt a table whose end_date was NOT NULL; no request yet
Rebuilt == life.opens > 0 /\ pre.notnull /\ nreq = 0

\* C38: after initDb on a database whose media table has end_date NOT NULL,
\* the media table has every column the create, update and bulk handlers
\* write, and every row that was there keeps its values for those columns.
C38_RebuiltTableHasWrittenColumns ==
  Rebuilt =>
    /\ WrittenColumns \subseteq db.columns
    /\ RowsKept(pre, db, WrittenColumns \cap pre.columns)

\* C38, the part that holds: the rebuilt table has every written column but
\* discontinued, the rows keep their values for those, and initDb on a table
\* whose end_date is nullable leaves every written column in place.
RebuiltTableLacksOnlyDiscontinued ==
  /\ Rebuilt =>
       /\ db.columns = CreatedColumns
       /\ ~db.notnull
       /\ RowsKept(pre, db, WrittenColumns \ {"discontinued"})
  /\ (life.opens > 0 /\ ~pre.notnull) => WrittenColumns \subseteq db.columns

\* C38, the case that fails: the server listens on a rebuilt table without
\* the column discontinued, and a create is answered 500.
CreateFailsOnRebuiltTable ==
  /\ life.opens > 0 /\ pre.notnull
  /\ "discontinued" \notin db.columns
  /\ \E p \in Procs : proc[p].op = "create" /\ proc[p].pc = "done" /\ proc[p].status = 500

====
